---- MODULE Spec2Model ----
(***************************************************************************)
(* Process execution subsystem of r-python: the subprocess.run builtin     *)
(* bridge (interpreter/builtins.rs), the execution engine run_command /    *)
(* run_shell_command (stdlib/subprocess/process.rs, process.rs/process.rs),*)
(* the two SubprocessError taxonomies (stdlib/subprocess/types.rs and      *)
(* interpreter/subprocess_errors.rs) and the Processo handle.              *)
(*                                                                         *)
(* Rust strings are TLA+ strings; byte buffers are sequences of byte       *)
(* values.  The operating system is the environment: what it does with a   *)
(* Command (fail to launch, or run a child that writes bytes and exits) is *)
(* an input of every call, drawn from OsBehaviours.                        *)
(***************************************************************************)
EXTENDS Integers, Sequences, FiniteSets, TLC

VARIABLES
  op,            \* the operation the last call-level action performed
  args,          \* argument expressions of the last subprocess.run call
  engineCall,    \* engine entry point the last call reached and its inputs
  os,            \* what the OS did with the Command of the last call
  spawned,       \* the child processes the last call made the OS create
  engineResult,  \* Result<CompletedProcess, SubprocessError> of the engine
  result,        \* Result<ExpressionResult, String> of the builtin
  ioIn,          \* input of the last from_io_error call
  ioOut,         \* its result in either taxonomy
  shown,         \* the two errors last converted to strings, with the strings
  callee,        \* name the last eval_builtin_function call looked up
  evals,         \* how many argument expressions the last call evaluated
  once,          \* BUILTIN_REGISTRY: state of the OnceLock
  registry,      \* BUILTIN_REGISTRY: the BuiltinRegistry it holds
  installs,      \* BUILTIN_REGISTRY: how many times a value was stored in it
  threads,       \* threads inside get_builtin_registry
  child,         \* Processo: state of the OS child behind the handle
  status,        \* Processo: exit status the OS holds / held for the child
  handle,        \* Processo: the handle (std::process::Child) state
  waitRet,       \* Processo: value returned by the last wait()
  sigLog,        \* Processo: signals delivered by terminate()/kill()
  sigterm,       \* Processo: what the child does with SIGTERM
  popen,         \* popen_command: its result, the PopenProcess and its streams
  pchild,        \* popen_command: the OS process behind the PopenProcess
  pipes,         \* popen_command: bytes in the pipes between caller and child
  caller,        \* popen_command: what the caller wrote, read and joined
  run            \* run_command / run_shell_command, step by step inside output()

callVars == <<op, args, engineCall, os, spawned, engineResult, result, ioIn, ioOut, shown,
              callee, evals>>
regVars == <<once, registry, installs, threads>>
procVars == <<child, status, handle, waitRet, sigLog, sigterm>>
popVars == <<popen, pchild, pipes, caller>>
runVars == <<run>>
vars == <<op, args, engineCall, os, spawned, engineResult, result, ioIn, ioOut,
          shown, callee, evals, once, registry, installs, threads,
          child, status, handle, waitRet, sigLog, sigterm,
          popen, pchild, pipes, caller, run>>

----------------------------------------------------------------------------
(* Strings *)

\* s contains sub as a contiguous substring (str::contains)
Contains(s, sub) ==
  \E i \in 1..(Len(s) - Len(sub) + 1) : SubSeq(s, i, i + Len(sub) - 1) = sub

StartsWith(s, pre) == Len(s) >= Len(pre) /\ SubSeq(s, 1, Len(pre)) = pre

CharAt(s, i) == SubSeq(s, i, i)

IsWhitespace(c) == c \in {" ", "\t", "\n"}

RECURSIVE TrimStart(_)
TrimStart(s) ==
  IF Len(s) > 0 /\ IsWhitespace(CharAt(s, 1))
  THEN TrimStart(SubSeq(s, 2, Len(s)))
  ELSE s

RECURSIVE TrimEnd(_)
TrimEnd(s) ==
  IF Len(s) > 0 /\ IsWhitespace(CharAt(s, Len(s)))
  THEN TrimEnd(SubSeq(s, 1, Len(s) - 1))
  ELSE s

\* str::trim
Trim(s) == TrimEnd(TrimStart(s))

\* Option<T>
None == [some |-> FALSE, v |-> ""]
Some(x) == [some |-> TRUE, v |-> x]
NoneInt == [some |-> FALSE, v |-> 0]
SomeInt(n) == [some |-> TRUE, v |-> n]

----------------------------------------------------------------------------
(* Error taxonomy of stdlib/subprocess/types.rs, the one the engine and   *)
(* the bridge use.  An error value is its variant with its payload.       *)

ErrorT(variant, payload) == [variant |-> variant, payload |-> payload]

VariantsT == {"InvalidArguments", "CommandNotFound", "PermissionDenied",
              "ExecutionFailed", "OutputCaptureError"}

\* the text each arm of Display::fmt writes before the payload
\* a taxonomy in which two variants share one prefix
DisplayPrefixBug(variant) ==
  CASE variant = "InvalidArguments"   -> "Invalid arguments: "
    [] variant = "CommandNotFound"    -> "Command not found: "
    [] variant = "PermissionDenied"   -> "Command not found: "
    [] variant = "ExecutionFailed"    -> "Execution failed: "
    [] variant = "OutputCaptureError" -> "Output capture error: "

DisplayPrefix(variant) ==
  CASE variant = "InvalidArguments"   -> "Invalid arguments: "
    [] variant = "CommandNotFound"    -> "Command not found: "
    [] variant = "PermissionDenied"   -> "Permission denied: "
    [] variant = "ExecutionFailed"    -> "Execution failed: "
    [] variant = "OutputCaptureError" -> "Output capture error: "

\* impl Display for SubprocessError; From<SubprocessError> for String is to_string()
DisplayT(e) == DisplayPrefix(e.variant) \o e.payload

\* a native std::io::Error: its kind and its Display text
IoError(kind, msg) == [kind |-> kind, msg |-> msg]

\* a from_io_error that leaves the command name out of the message
FromIoErrorTBug(error, command) ==
  CASE error.kind = "NotFound" -> ErrorT("CommandNotFound", command)
    [] error.kind = "PermissionDenied" -> ErrorT("PermissionDenied", command)
    [] OTHER -> ErrorT("ExecutionFailed", error.msg)

\* SubprocessError::from_io_error of types.rs
FromIoErrorT(error, command) ==
  CASE error.kind = "NotFound" -> ErrorT("CommandNotFound", command)
    [] error.kind = "PermissionDenied" -> ErrorT("PermissionDenied", command)
    [] OTHER -> ErrorT("ExecutionFailed", command \o ": " \o error.msg)

----------------------------------------------------------------------------
(* Error taxonomy of interpreter/subprocess_errors.rs.  ExecutionFailed   *)
(* is a struct variant; the other variants carry one string.              *)

ErrorI(variant, payload) ==
  [variant |-> variant, payload |-> payload,
   exit_code |-> NoneInt, stdout |-> None, stderr |-> None]

\* ExecutionFailed { command_name, exit_code, stdout, stderr }
ExecutionFailedI(command_name, exit_code, stdout, stderr) ==
  [variant |-> "ExecutionFailed", payload |-> command_name,
   exit_code |-> exit_code, stdout |-> stdout, stderr |-> stderr]

VariantsI == {"CommandNotFound", "ExecutionFailed", "IoError", "InvalidArguments",
              "PermissionDenied", "OutputCaptureError", "Other"}

Digit(d) == SubSeq("0123456789", d + 1, d + 1)

RECURSIVE NatToStr(_)
NatToStr(n) == IF n < 10 THEN Digit(n) ELSE NatToStr(n \div 10) \o Digit(n % 10)

\* {} / {:?} of an i32
IntToStr(n) == IF n < 0 THEN "-" \o NatToStr(-n) ELSE NatToStr(n)

\* {:?} of one char of a str
EscapeChar(c) ==
  CASE c = "\"" -> "\\\""
    [] c = "\\" -> "\\\\"
    [] c = "\n" -> "\\n"
    [] c = "\t" -> "\\t"
    [] OTHER -> c

RECURSIVE EscapeDebug(_)
EscapeDebug(s) ==
  IF Len(s) = 0 THEN ""
  ELSE EscapeChar(CharAt(s, 1)) \o EscapeDebug(SubSeq(s, 2, Len(s)))

\* {:?} of an Option<String>
DebugOptStr(o) == IF o.some THEN "Some(\"" \o EscapeDebug(o.v) \o "\")" ELSE "None"

\* {:?} of an Option<i32>
DebugOptInt(o) == IF o.some THEN "Some(" \o IntToStr(o.v) \o ")" ELSE "None"

\* impl From<SubprocessError> for String of subprocess_errors.rs
DisplayI(e) ==
  CASE e.variant = "CommandNotFound" -> "Command not found: " \o e.payload
    [] e.variant = "ExecutionFailed" ->
         "Command '" \o e.payload \o "' failed with exit code "
           \o DebugOptInt(e.exit_code) \o ". Stdout: " \o DebugOptStr(e.stdout)
           \o ", Stderr: " \o DebugOptStr(e.stderr)
    [] e.variant = "IoError" -> "I/O Error: " \o e.payload
    [] e.variant = "InvalidArguments" -> "Invalid arguments: " \o e.payload
    [] e.variant = "PermissionDenied" -> "Permission denied: " \o e.payload
    [] e.variant = "OutputCaptureError" -> "Output capture error: " \o e.payload
    [] e.variant = "Other" -> "Subprocess Error: " \o e.payload

\* SubprocessError::from_io_error of subprocess_errors.rs
FromIoErrorI(err, command_name) ==
  CASE err.kind = "NotFound" -> ErrorI("CommandNotFound", command_name)
    [] err.kind = "PermissionDenied" -> ErrorI("PermissionDenied", command_name)
    [] OTHER -> ErrorI("IoError", command_name \o ": " \o err.msg)

----------------------------------------------------------------------------
(* The operating system, as std::process sees it *)

\* largest exit code a child of the model exits with
MaxExitCode == 2

\* the byte the model uses for one that is not valid UTF-8 anywhere (0xFF)
InvalidByte == 255

\* U+FFFD REPLACEMENT CHARACTER, which TLA+ strings cannot hold
ReplacementChar == "<U+FFFD>"

PrintableLow == " !\"#$%&'()*+,-./0123456789:;<=>?@ABCDEFGHIJKLMNOPQRSTUVWXYZ[\\]^_"
PrintableHigh == "abcdefghijklmnopqrstuvwxyz{|}~"

\* the char a one-byte UTF-8 sequence encodes (0x60 is left out: a TLA+
\* string cannot hold it)
AsciiChar(b) ==
  CASE b = 10 -> "\n"
    [] b = 9 -> "\t"
    [] b >= 32 /\ b <= 95 -> SubSeq(PrintableLow, b - 31, b - 31)
    [] b >= 97 /\ b <= 126 -> SubSeq(PrintableHigh, b - 96, b - 96)

\* std::str::from_utf8(bytes).is_ok(), for byte strings of ASCII and 0xFF bytes
IsUtf8(bytes) == \A i \in 1..Len(bytes) : bytes[i] < 128

RECURSIVE DecodeUtf8(_)
\* the text of a valid UTF-8 byte string
DecodeUtf8(bytes) ==
  IF bytes = <<>> THEN "" ELSE AsciiChar(Head(bytes)) \o DecodeUtf8(Tail(bytes))

RECURSIVE DecodeLossy(_)
\* String::from_utf8_lossy: every 0xFF byte becomes one U+FFFD
DecodeLossy(bytes) ==
  IF bytes = <<>> THEN ""
  ELSE (IF Head(bytes) < 128 THEN AsciiChar(Head(bytes)) ELSE ReplacementChar)
         \o DecodeLossy(Tail(bytes))

\* a conversion that gives up on bytes that are not UTF-8
BytesToStringStrict(bytes) ==
  IF IsUtf8(bytes) THEN DecodeUtf8(bytes) ELSE ""

\* bytes_to_string
bytes_to_string(bytes) ==
  IF bytes = <<>> THEN ""
  ELSE IF IsUtf8(bytes) THEN DecodeUtf8(bytes)
  ELSE DecodeLossy(bytes)

\* what the OS does with one Command: the launch fails with an io::Error
\* of kind launch, or the child runs, writes out/err and ends with status
\* (Some(code) on a normal exit, None when a signal ended it)
OsFail(kind, msg) ==
  [launch |-> kind, msg |-> msg, status |-> NoneInt, out |-> <<>>, err |-> <<>>]
OsRun(st, out, err) ==
  [launch |-> "ok", msg |-> "", status |-> st, out |-> out, err |-> err]
OsIdle == OsRun(NoneInt, <<>>, <<>>)

ExitStatuses == {SomeInt(c) : c \in 0..MaxExitCode} \cup {NoneInt}

\* "hi\n", the empty output, and output that is not UTF-8
ChildOutputs == {<<>>, <<104, 105, 10>>, <<InvalidByte, 72>>}
ChildErrors == {<<>>, <<101>>}

OsFailures ==
  {OsFail("NotFound", "No such file or directory (os error 2)"),
   OsFail("PermissionDenied", "Permission denied (os error 13)"),
   OsFail("WouldBlock", "Resource temporarily unavailable (os error 11)")}

OsBehaviours ==
  OsFailures
    \cup {OsRun(st, out, err) : st \in ExitStatuses, out \in ChildOutputs, err \in ChildErrors}

\* std::process::Command::new(program) with args(args); no stream configured yet
Command(program, argv) ==
  [program |-> program, args |-> argv,
   stdin |-> "unset", stdout |-> "unset", stderr |-> "unset"]

\* cmd.stdout(Stdio::piped()); cmd.stderr(Stdio::piped()) when capture_output
ConfigureStdio(cmd, options) ==
  IF options.capture_output
  THEN [cmd EXCEPT !.stdout = "piped", !.stderr = "piped"]
  ELSE cmd

\* the stream a child gets when the Command left it unset
StdioOr(cfg, default) == IF cfg = "unset" THEN default ELSE cfg

NoOutput == [status |-> NoneInt, stdout |-> <<>>, stderr |-> <<>>]

\* Command::output(): spawn, collect the piped streams to end-of-file, wait.
\* A stream left unset defaults to a pipe for stdout and stderr and to the
\* null device for stdin (std::process::Command::output, "By default, stdout
\* and stderr are captured").
CommandOutput(cmd, o) ==
  LET proc == [program |-> cmd.program, args |-> cmd.args,
               stdin |-> StdioOr(cmd.stdin, "null"),
               stdout |-> StdioOr(cmd.stdout, "piped"),
               stderr |-> StdioOr(cmd.stderr, "piped")]
  IN IF o.launch # "ok"
     THEN [ok |-> FALSE, error |-> IoError(o.launch, o.msg), output |-> NoOutput,
           children |-> <<>>]
     ELSE [ok |-> TRUE, error |-> IoError("", ""),
           output |-> [status |-> o.status,
                       stdout |-> IF proc.stdout = "piped" THEN o.out ELSE <<>>,
                       stderr |-> IF proc.stderr = "piped" THEN o.err ELSE <<>>],
           children |-> <<proc>>]

----------------------------------------------------------------------------
(* Execution engine: run_command and run_shell_command *)

RunOptions(shell, capture_output) == [shell |-> shell, capture_output |-> capture_output]

\* a default that captures the output
DefaultRunOptionsCapture == [shell |-> FALSE, capture_output |-> TRUE]

\* impl Default for RunOptions
DefaultRunOptions == RunOptions(FALSE, FALSE)

CompletedProcess(returncode, stdout, stderr) ==
  [returncode |-> returncode, stdout |-> stdout, stderr |-> stderr]

NoProcess == CompletedProcess(0, None, None)
NoError == ErrorT("", "")

\* Result<CompletedProcess, SubprocessError>, with the children the call spawned
EngineOk(cp, children) == [ok |-> TRUE, cp |-> cp, err |-> NoError, children |-> children]
EngineErr(e, children) == [ok |-> FALSE, cp |-> NoProcess, err |-> e, children |-> children]

\* status.code().unwrap_or(0)
ReturnCodeZero(st) == IF st.some THEN st.v ELSE 0

\* status.code().unwrap_or(-1)
ReturnCode(st) == IF st.some THEN st.v ELSE -1

\* an engine that captures whatever the option says
CapturedAlways(options, bytes) == Some(bytes_to_string(bytes))

\* if options.capture_output { Some(bytes_to_string(..)) } else { None }
Captured(options, bytes) ==
  IF options.capture_output THEN Some(bytes_to_string(bytes)) ELSE None

\* the Ok(output) arm both entry points share
Completed(options, output) ==
  CompletedProcess(ReturnCode(output.status),
                   Captured(options, output.stdout),
                   Captured(options, output.stderr))

\* a run_command that reports a non-zero exit as ExecutionFailed
RunCommandStrict(command, options, o) ==
  IF command = <<>>
  THEN EngineErr(ErrorT("InvalidArguments", "Command cannot be empty"), <<>>)
  ELSE LET program == command[1]
           out == CommandOutput(ConfigureStdio(Command(program, Tail(command)), options), o)
       IN IF out.ok
          THEN IF ReturnCode(out.output.status) # 0
               THEN EngineErr(ErrorT("ExecutionFailed", program), out.children)
               ELSE EngineOk(Completed(options, out.output), out.children)
          ELSE EngineErr(FromIoErrorT(out.error, program), out.children)

\* a run_command that hands the whole vector, program name included, to args()
RunCommandArgv0(command, options, o) ==
  IF command = <<>>
  THEN EngineErr(ErrorT("InvalidArguments", "Command cannot be empty"), <<>>)
  ELSE LET program == command[1]
           out == CommandOutput(ConfigureStdio(Command(program, command), options), o)
       IN IF out.ok
          THEN EngineOk(Completed(options, out.output), out.children)
          ELSE EngineErr(FromIoErrorT(out.error, program), out.children)

\* run_command
run_command(command, options, o) ==
  IF command = <<>>
  THEN EngineErr(ErrorT("InvalidArguments", "Command cannot be empty"), <<>>)
  ELSE LET program == command[1]
           out == CommandOutput(ConfigureStdio(Command(program, Tail(command)), options), o)
       IN IF out.ok
          THEN EngineOk(Completed(options, out.output), out.children)
          ELSE EngineErr(FromIoErrorT(out.error, program), out.children)

\* cfg!(target_os = "windows") is false: the model is the POSIX build
shell_program == "sh"
shell_arg == "-c"

\* a run_shell_command that tests command.is_empty() without trim()
RunShellNoTrim(command, options, o) ==
  IF command = ""
  THEN EngineErr(ErrorT("InvalidArguments", "Shell command cannot be empty"), <<>>)
  ELSE LET out == CommandOutput(
                    ConfigureStdio(Command(shell_program, <<shell_arg, command>>), options), o)
       IN IF out.ok
          THEN EngineOk(Completed(options, out.output), out.children)
          ELSE EngineErr(FromIoErrorT(out.error, shell_program), out.children)

\* a run_shell_command whose launch error names the command string
RunShellNamesCommand(command, options, o) ==
  IF Trim(command) = ""
  THEN EngineErr(ErrorT("InvalidArguments", "Shell command cannot be empty"), <<>>)
  ELSE LET out == CommandOutput(
                    ConfigureStdio(Command(shell_program, <<shell_arg, command>>), options), o)
       IN IF out.ok
          THEN EngineOk(Completed(options, out.output), out.children)
          ELSE EngineErr(FromIoErrorT(out.error, command), out.children)

\* run_shell_command
run_shell_command(command, options, o) ==
  IF Trim(command) = ""
  THEN EngineErr(ErrorT("InvalidArguments", "Shell command cannot be empty"), <<>>)
  ELSE LET out == CommandOutput(
                    ConfigureStdio(Command(shell_program, <<shell_arg, command>>), options), o)
       IN IF out.ok
          THEN EngineOk(Completed(options, out.output), out.children)
          ELSE EngineErr(FromIoErrorT(out.error, shell_program), out.children)

----------------------------------------------------------------------------
(* Interpreter values and the subprocess.run bridge *)

\* largest number of argument expressions a call is made with
MaxArgs == 4

\* ir::ast::Expression, the variants the bridge reads or builds
Expr(tag, str, num, items) ==
  [tag |-> tag, s |-> str, n |-> num, items |-> items, stdout |-> None, stderr |-> None]
CString(str) == Expr("CString", str, 0, <<>>)
CInt(num) == Expr("CInt", "", num, <<>>)
CTrue == Expr("CTrue", "", 0, <<>>)
CFalse == Expr("CFalse", "", 0, <<>>)
ListValue(items) == Expr("ListValue", "", 0, items)
\* CErr(Box<Expression>)
CErr(e) == Expr("CErr", "", 0, <<e>>)
\* Expression::CompletedProcess { returncode, stdout, stderr }
CompletedProcessValue(cp) ==
  [tag |-> "CompletedProcess", s |-> "", n |-> cp.returncode, items |-> <<>>,
   stdout |-> cp.stdout, stderr |-> cp.stderr]
Unit == Expr("Unit", "", 0, <<>>)

\* Result<ExpressionResult, String>
HardErr(msg) == [kind |-> "Err", msg |-> msg, value |-> Unit]
OkValue(v) == [kind |-> "Value", msg |-> "", value |-> v]
OkPropagate(e) == [kind |-> "Propagate", msg |-> "", value |-> e]
NoResult == [kind |-> "None", msg |-> "", value |-> Unit]

\* An argument expression, with what expression_eval::eval makes of it:
\* Ok(Value(expr)), Ok(Propagate(expr)) or Err(msg)
ArgValue(e) == [outcome |-> "Value", expr |-> e, msg |-> ""]
ArgPropagate(e) == [outcome |-> "Propagate", expr |-> e, msg |-> ""]
ArgErr(msg) == [outcome |-> "Err", expr |-> Unit, msg |-> msg]

\* expression_eval::eval(arg, env)
Eval(arg) ==
  CASE arg.outcome = "Value" -> OkValue(arg.expr)
    [] arg.outcome = "Propagate" -> OkPropagate(arg.expr)
    [] arg.outcome = "Err" -> HardErr(arg.msg)

MsgArity == "subprocess.run() takes 1 to 3 arguments"
MsgListStrings == "subprocess.run() command list must contain only strings"
MsgListEmpty == "subprocess.run() command list cannot be empty"
MsgFirstArg == "subprocess.run() first argument must be a list of strings or a string"
MsgShell == "subprocess.run() shell argument must be a boolean"
MsgCapture == "subprocess.run() capture_output argument must be a boolean"

\* what a call of the builtin did: its result, the engine entry point it
\* reached with that entry point's inputs, and the engine's result
NoEngine == [fn |-> "none", command |-> <<>>, options |-> DefaultRunOptions]
EngineCall(fn, command, options) == [fn |-> fn, command |-> command, options |-> options]
NoEngineResult == EngineErr(NoError, <<>>)

Rejected(res) == [result |-> res, engine |-> NoEngine, eres |-> NoEngineResult]

\* a bridge that fails the call on an engine error
ConvertHard(eres) ==
  IF eres.ok
  THEN OkValue(CompletedProcessValue(eres.cp))
  ELSE HardErr(DisplayT(eres.err))

\* match result { Ok(completed_process) => .., Err(subprocess_error) => .. }
ConvertResult(eres) ==
  IF eres.ok
  THEN OkValue(CompletedProcessValue(eres.cp))
  ELSE OkValue(CErr(CString(DisplayT(eres.err))))

\* the strings of a command list: cmd_vec
CmdVec(list) == [i \in 1..Len(list) |-> list[i].s]

\* a bridge that picks the entry point by the shape of the command
DispatchByShape(first, command, options, o) ==
  IF first.tag = "CString"
  THEN [engine |-> EngineCall("run_shell_command", <<command[1]>>, options),
        eres |-> run_shell_command(command[1], options, o)]
  ELSE [engine |-> EngineCall("run_command", command, options),
        eres |-> run_command(command, options, o)]

\* a bridge that runs a command list directly whatever the shell flag
DispatchListDirect(first, command, options, o) ==
  IF options.shell /\ Len(command) = 1
  THEN [engine |-> EngineCall("run_shell_command", <<command[1]>>, options),
        eres |-> run_shell_command(command[1], options, o)]
  ELSE [engine |-> EngineCall("run_command", command, options),
        eres |-> run_command(command, options, o)]

\* "Execute the command based on shell option"
Dispatch(first, command, options, o) ==
  IF options.shell /\ Len(command) = 1
  THEN [engine |-> EngineCall("run_shell_command", <<command[1]>>, options),
        eres |-> run_shell_command(command[1], options, o)]
  ELSE IF ~options.shell
  THEN [engine |-> EngineCall("run_command", command, options),
        eres |-> run_command(command, options, o)]
  ELSE [engine |-> EngineCall("run_shell_command", <<command[1]>>, options),
        eres |-> run_shell_command(command[1], options, o)]

\* a flag match with a catch-all arm that accepts any value
IsBoolLax(e) == TRUE

\* the arms Expression::CTrue and Expression::CFalse of the flag matches
IsBool(e) == e.tag \in {"CTrue", "CFalse"}

\* a bridge that treats a blank command string as it treats an empty list
ValidateRejectsBlank(ev, o) ==
  LET first == ev[1]
      isList == first.tag = "ListValue"
  IN IF isList /\ \E i \in 1..Len(first.items) : first.items[i].tag # "CString"
     THEN Rejected(HardErr(MsgListStrings))
     ELSE IF isList /\ first.items = <<>>
     THEN Rejected(HardErr(MsgListEmpty))
     ELSE IF ~isList /\ first.tag # "CString"
     THEN Rejected(HardErr(MsgFirstArg))
     ELSE IF ~isList /\ Trim(first.s) = ""
     THEN Rejected(HardErr("subprocess.run() command cannot be empty"))
     ELSE IF Len(ev) > 1 /\ ~IsBool(ev[2])
     THEN Rejected(HardErr(MsgShell))
     ELSE IF Len(ev) > 2 /\ ~IsBool(ev[3])
     THEN Rejected(HardErr(MsgCapture))
     ELSE LET command == IF isList THEN CmdVec(first.items) ELSE <<first.s>>
              options == RunOptions(
                           IF Len(ev) > 1 THEN ev[2].tag = "CTrue" ELSE DefaultRunOptions.shell,
                           IF Len(ev) > 2 THEN ev[3].tag = "CTrue"
                                          ELSE DefaultRunOptions.capture_output)
              d == Dispatch(first, command, options, o)
          IN [result |-> ConvertResult(d.eres), engine |-> d.engine, eres |-> d.eres]

\* the checks on the evaluated arguments, then the engine call
Validate(ev, o) ==
  LET first == ev[1]
      isList == first.tag = "ListValue"
  IN IF isList /\ \E i \in 1..Len(first.items) : first.items[i].tag # "CString"
     THEN Rejected(HardErr(MsgListStrings))
     ELSE IF isList /\ first.items = <<>>
     THEN Rejected(HardErr(MsgListEmpty))
     ELSE IF ~isList /\ first.tag # "CString"
     THEN Rejected(HardErr(MsgFirstArg))
     ELSE IF Len(ev) > 1 /\ ~IsBool(ev[2])
     THEN Rejected(HardErr(MsgShell))
     ELSE IF Len(ev) > 2 /\ ~IsBool(ev[3])
     THEN Rejected(HardErr(MsgCapture))
     ELSE LET command == IF isList THEN CmdVec(first.items) ELSE <<first.s>>
              options == RunOptions(
                           IF Len(ev) > 1 THEN ev[2].tag = "CTrue" ELSE DefaultRunOptions.shell,
                           IF Len(ev) > 2 THEN ev[3].tag = "CTrue"
                                          ELSE DefaultRunOptions.capture_output)
              d == Dispatch(first, command, options, o)
          IN [result |-> ConvertResult(d.eres), engine |-> d.engine, eres |-> d.eres]

\* a loop that evaluates every argument before it looks at the outcomes
EvalArgsEager(a) ==
  LET stops == {i \in 1..Len(a) : a[i].outcome # "Value"}
  IN [stop |-> IF stops = {} THEN 0 ELSE CHOOSE j \in stops : \A k \in stops : j <= k,
      evals |-> Len(a)]

\* "Evaluate all arguments first": eval is called on the arguments in order
\* until one does not give a value.  stop is the index of that argument (0
\* when every argument gave a value), evals the number of calls of eval
EvalArgs(a) ==
  LET stops == {i \in 1..Len(a) : a[i].outcome # "Value"}
      stop == IF stops = {} THEN 0 ELSE CHOOSE j \in stops : \A k \in stops : j <= k
  IN [stop |-> stop, evals |-> IF stop = 0 THEN Len(a) ELSE stop]

\* a bridge that evaluates the arguments before it counts them
SubprocessRunEvalFirst(a, o) ==
  LET loop == EvalArgs(a)
  IN IF loop.stop # 0
     THEN Rejected(Eval(a[loop.stop]))
     ELSE IF Len(a) = 0 \/ Len(a) > 3
     THEN Rejected(HardErr(MsgArity))
     ELSE Validate([i \in 1..Len(a) |-> a[i].expr], o)

\* subprocess_run_builtin
subprocess_run_builtin(a, o) ==
  IF Len(a) = 0 \/ Len(a) > 3
  THEN Rejected(HardErr(MsgArity))
  ELSE LET loop == EvalArgs(a)
       IN IF loop.stop # 0
          THEN \* eval(arg, env)? returns the Err, the Propagate arm the Propagate
               Rejected(Eval(a[loop.stop]))
          ELSE Validate([i \in 1..Len(a) |-> a[i].expr], o)

\* the number of argument expressions a call of subprocess_run_builtin evaluates
ArgsEvaluated(a) == IF Len(a) = 0 \/ Len(a) > 3 THEN 0 ELSE EvalArgs(a).evals

----------------------------------------------------------------------------
(* The registry of builtins *)

\* BuiltinRegistry::new(): the HashMap<Name, BuiltinFunction>, as its entries
BuiltinRegistryNew == {}

Entry(name, func) == [name |-> name, func |-> func]

\* BuiltinRegistry::register: HashMap::insert replaces the entry of the name
register(reg, name, func) == {e \in reg : e.name # name} \cup {Entry(name, func)}

\* BuiltinRegistry::lookup
lookup(reg, name) ==
  IF \E e \in reg : e.name = name
  THEN Some((CHOOSE e \in reg : e.name = name).func)
  ELSE None

\* a registration that also enters the builtin under a second name
RegisterWithAlias(reg) ==
  register(register(reg, "subprocess.run", "subprocess_run_builtin"),
           "subprocess.call", "subprocess_run_builtin")

\* register_subprocess_run
register_subprocess_run(reg) == register(reg, "subprocess.run", "subprocess_run_builtin")

\* the closure get_builtin_registry hands to get_or_init
InitClosure == register_subprocess_run(BuiltinRegistryNew)

\* Ok(None), in the result of eval_builtin_function; Ok(Some(r)) is held as r
OkNone == [kind |-> "OkNone", msg |-> "", value |-> Unit]

\* an eval_builtin_function that reports a name it does not know as an error
EvalBuiltinStrict(name, a, o, reg) ==
  IF lookup(reg, name).some
  THEN subprocess_run_builtin(a, o)
  ELSE Rejected(HardErr("unknown builtin: " \o name))

\* eval_builtin_function, given the registry get_builtin_registry returned;
\* every function pointer of the registry is subprocess_run_builtin
eval_builtin_function(name, a, o, reg) ==
  IF lookup(reg, name).some
  THEN subprocess_run_builtin(a, o)
  ELSE Rejected(OkNone)

----------------------------------------------------------------------------
(* Inputs of the calls *)

CommandExprs ==
  {ListValue(<<CString("echo"), CString("hi")>>),
   ListValue(<<CString("ls")>>),
   ListValue(<<>>),
   ListValue(<<CString("echo"), CInt(1)>>),
   ListValue(<<CString("echo"), CString("a b"), CString("$HOME; ls")>>),
   CString("echo hi"),
   CString(""),
   CString(" \t"),
   CInt(42)}

FlagExprs == {CTrue, CFalse, CInt(1), CString("invalid")}

\* arguments whose evaluation does not give a value
Stoppers == {ArgPropagate(CString("early")), ArgErr("Variable x not found")}

ArgPool == {ArgValue(e) : e \in CommandExprs \cup FlagExprs} \cup Stoppers

ArgsAt(i) ==
  CASE i = 1 -> {ArgValue(e) : e \in CommandExprs} \cup Stoppers
    [] i \in {2, 3} -> {ArgValue(e) : e \in FlagExprs} \cup Stoppers
    [] OTHER -> {ArgValue(CFalse)}

BridgeArgs ==
  UNION {{a \in [1..n -> ArgPool] : \A i \in 1..n : a[i] \in ArgsAt(i)} : n \in 0..MaxArgs}

AllOptions == {RunOptions(sh, cap) : sh \in BOOLEAN, cap \in BOOLEAN}

EngineCommands == {<<>>, <<"true">>, <<"echo", "hi">>, <<"ls", "/nonexistent">>}

ShellCommands == {"", "  ", " \n\t", "echo a && echo b", " ls "}

IoErrors ==
  {IoError("NotFound", "No such file or directory (os error 2)"),
   IoError("NotFound", "file not found"),
   IoError("PermissionDenied", "Permission denied (os error 13)"),
   IoError("Other", "Some generic IO error"),
   IoError("WouldBlock", "Resource temporarily unavailable (os error 11)"),
   IoError("InvalidInput", "")}

CommandNames == {"some_cmd", "sh", "a: b", ""}

NoIoIn == [error |-> IoError("", ""), command |-> ""]
NoIoOut == [t |-> NoError, i |-> ErrorI("", "")]

Payloads == {"", "foo", "a: b", "Command not found: foo"}

ErrorsT == {ErrorT(v, p) : v \in VariantsT, p \in Payloads}

ErrorsI ==
  {ErrorI(v, p) : v \in VariantsI \ {"ExecutionFailed"}, p \in Payloads}
    \cup {ExecutionFailedI(c, x, so, se) :
            c \in {"ls", "a: b"},
            x \in {NoneInt, SomeInt(1), SomeInt(-1)},
            so \in {None, Some(""), Some("a\"b\n")},
            se \in {None, Some("e")}}

\* names eval_builtin_function is called with
BuiltinNames == {"subprocess.run", "nonexistent.function", "subprocess.call"}

NoShown == [tax |-> "none", e1 |-> NoError, e2 |-> NoError, s1 |-> "", s2 |-> ""]

----------------------------------------------------------------------------
(* State machine of the calls.  A call is made from the idle state, runs  *)
(* to completion (the engine blocks its thread) and leaves its inputs and *)
(* outputs in the state until the caller returns to idle.                 *)

InitCalls ==
  /\ op = "idle"
  /\ args = <<>>
  /\ engineCall = NoEngine
  /\ os = OsIdle
  /\ spawned = <<>>
  /\ engineResult = NoEngineResult
  /\ result = NoResult
  /\ ioIn = NoIoIn
  /\ ioOut = NoIoOut
  /\ shown = NoShown
  /\ callee = ""
  /\ evals = 0

\* a program with the empty name cannot be launched: the OS finds no file
OsAllows(engine, o) ==
  (engine.fn = "run_command" /\ engine.command # <<>> /\ engine.command[1] = "")
    => o.launch = "NotFound"

\* the call handed a Command to the OS
ReachedOs(eres) == eres.children # <<>> \/ (~eres.ok /\ eres.err.variant # "InvalidArguments")

\* eval_builtin_function("subprocess.run", a, env) reaching subprocess_run_builtin
BridgeCall ==
  /\ op = "idle"
  /\ \E a \in BridgeArgs, o \in OsBehaviours :
       LET r == subprocess_run_builtin(a, o)
       IN /\ OsAllows(r.engine, o)
          /\ op' = "subprocess_run_builtin"
          /\ args' = a
          /\ engineCall' = r.engine
          /\ engineResult' = r.eres
          /\ spawned' = r.eres.children
          /\ os' = IF r.engine.fn # "none" /\ ReachedOs(r.eres) THEN o ELSE OsIdle
          /\ result' = r.result
          /\ evals' = ArgsEvaluated(a)
  /\ UNCHANGED <<ioIn, ioOut, shown, callee>>
  /\ UNCHANGED <<regVars, procVars, popVars, runVars>>

\* a lazy initialization that tests for a stored value without the lock
InitializesRacy(st) == st # "complete"

\* the caller that runs the closure of get_or_init: the one that finds the
\* OnceLock incomplete
Initializes(st) == st = "incomplete"

\* eval_builtin_function(name, a, env) by the interpreter's thread:
\* get_builtin_registry (the first call installs the registry), then the
\* lookup and, for a registered name, the builtin
EvalBuiltinCall ==
  /\ op = "idle"
  /\ once # "running"
  /\ \E name \in BuiltinNames, a \in BridgeArgs, o \in OsBehaviours :
       LET reg == IF Initializes(once) THEN InitClosure ELSE registry
           r == eval_builtin_function(name, a, o, reg)
       IN /\ OsAllows(r.engine, o)
          /\ op' = "eval_builtin_function"
          /\ callee' = name
          /\ args' = a
          /\ once' = "complete"
          /\ registry' = reg
          /\ installs' = IF Initializes(once) THEN installs + 1 ELSE installs
          /\ engineCall' = r.engine
          /\ engineResult' = r.eres
          /\ spawned' = r.eres.children
          /\ os' = IF r.engine.fn # "none" /\ ReachedOs(r.eres) THEN o ELSE OsIdle
          /\ result' = r.result
          /\ evals' = IF lookup(reg, name).some THEN ArgsEvaluated(a) ELSE 0
  /\ UNCHANGED <<ioIn, ioOut, shown, threads>>
  /\ UNCHANGED <<procVars, popVars, runVars>>

\* a direct call of run_command
RunCommandCall ==
  /\ op = "idle"
  /\ \E c \in EngineCommands, opt \in AllOptions, o \in OsBehaviours :
       LET r == run_command(c, opt, o)
       IN /\ OsAllows(EngineCall("run_command", c, opt), o)
          /\ op' = "run_command"
          /\ engineCall' = EngineCall("run_command", c, opt)
          /\ engineResult' = r
          /\ spawned' = r.children
          /\ os' = IF ReachedOs(r) THEN o ELSE OsIdle
  /\ UNCHANGED <<args, result, ioIn, ioOut, shown, callee, evals>>
  /\ UNCHANGED <<regVars, procVars, popVars, runVars>>

\* a direct call of run_shell_command
RunShellCall ==
  /\ op = "idle"
  /\ \E c \in ShellCommands, opt \in AllOptions, o \in OsBehaviours :
       LET r == run_shell_command(c, opt, o)
       IN /\ op' = "run_shell_command"
          /\ engineCall' = EngineCall("run_shell_command", <<c>>, opt)
          /\ engineResult' = r
          /\ spawned' = r.children
          /\ os' = IF ReachedOs(r) THEN o ELSE OsIdle
  /\ UNCHANGED <<args, result, ioIn, ioOut, shown, callee, evals>>
  /\ UNCHANGED <<regVars, procVars, popVars, runVars>>

\* SubprocessError::from_io_error(e, c), in either taxonomy
FromIoErrorCall ==
  /\ op = "idle"
  /\ \E e \in IoErrors, c \in CommandNames :
       /\ op' = "from_io_error"
       /\ ioIn' = [error |-> e, command |-> c]
       /\ ioOut' = [t |-> FromIoErrorT(e, c), i |-> FromIoErrorI(e, c)]
  /\ UNCHANGED <<args, engineCall, os, spawned, engineResult, result, shown, callee, evals>>
  /\ UNCHANGED <<regVars, procVars, popVars, runVars>>

\* two errors of the types.rs taxonomy are converted to strings
DisplayTCall ==
  /\ op = "idle"
  /\ \E e1 \in ErrorsT, e2 \in ErrorsT :
       /\ op' = "display"
       /\ shown' = [tax |-> "T", e1 |-> e1, e2 |-> e2,
                    s1 |-> DisplayT(e1), s2 |-> DisplayT(e2)]
  /\ UNCHANGED <<args, engineCall, os, spawned, engineResult, result, ioIn, ioOut, callee, evals>>
  /\ UNCHANGED <<regVars, procVars, popVars, runVars>>

\* two errors of the subprocess_errors.rs taxonomy are converted to strings
DisplayICall ==
  /\ op = "idle"
  /\ \E e1 \in ErrorsI, e2 \in ErrorsI :
       /\ op' = "display"
       /\ shown' = [tax |-> "I", e1 |-> e1, e2 |-> e2,
                    s1 |-> DisplayI(e1), s2 |-> DisplayI(e2)]
  /\ UNCHANGED <<args, engineCall, os, spawned, engineResult, result, ioIn, ioOut, callee, evals>>
  /\ UNCHANGED <<regVars, procVars, popVars, runVars>>

\* the caller has taken the outcome; the next call starts from idle
Return ==
  /\ op # "idle"
  /\ op' = "idle"
  /\ args' = <<>>
  /\ engineCall' = NoEngine
  /\ os' = OsIdle
  /\ spawned' = <<>>
  /\ engineResult' = NoEngineResult
  /\ result' = NoResult
  /\ ioIn' = NoIoIn
  /\ ioOut' = NoIoOut
  /\ shown' = NoShown
  /\ callee' = ""
  /\ evals' = 0
  /\ UNCHANGED <<regVars, procVars, popVars, runVars>>

----------------------------------------------------------------------------
(* Threads that call eval_builtin_function at the same time.  The static  *)
(* BUILTIN_REGISTRY is a std::sync::OnceLock: get_or_init runs the closure *)
(* of the caller that finds it incomplete, makes every caller that comes   *)
(* while the closure runs wait, and hands the stored value to all.         *)

\* threads that call eval_builtin_function concurrently
NumThreads == 2

Threads == 1..NumThreads

\* a &'static BuiltinRegistry: which stored value it points to, and the entries
Instance(inst, entries) == [inst |-> inst, entries |-> entries]
NoInstance == Instance(0, {})

ThreadIdle ==
  [pc |-> "ready", name |-> "", local |-> BuiltinRegistryNew, got |-> NoInstance,
   res |-> NoResult]

InitReg ==
  /\ once = "incomplete"
  /\ registry = BuiltinRegistryNew
  /\ installs = 0
  /\ threads = [t \in Threads |-> ThreadIdle]

\* a thread calls eval_builtin_function(name, vec![], env)
ThreadCall(t) ==
  /\ threads[t].pc = "ready"
  /\ \E name \in BuiltinNames :
       threads' = [threads EXCEPT ![t].pc = "get_or_init", ![t].name = name]
  /\ UNCHANGED <<once, registry, installs>>
  /\ UNCHANGED <<callVars, procVars, popVars, runVars>>

\* BUILTIN_REGISTRY.get_or_init(..): return the stored value, or become the
\* caller that runs the closure; a caller that finds the closure running
\* waits here
GetOrInit(t) ==
  /\ threads[t].pc = "get_or_init"
  /\ \/ /\ once = "complete"
        /\ threads' = [threads EXCEPT ![t].pc = "lookup",
                                      ![t].got = Instance(installs, registry)]
        /\ UNCHANGED once
     \/ /\ once # "complete"
        /\ Initializes(once)
        /\ once' = "running"
        /\ threads' = [threads EXCEPT ![t].pc = "closure_new"]
  /\ UNCHANGED <<registry, installs>>
  /\ UNCHANGED <<callVars, procVars, popVars, runVars>>

\* let mut registry = BuiltinRegistry::new();
ClosureNew(t) ==
  /\ threads[t].pc = "closure_new"
  /\ threads' = [threads EXCEPT ![t].pc = "closure_register",
                                ![t].local = BuiltinRegistryNew]
  /\ UNCHANGED <<once, registry, installs>>
  /\ UNCHANGED <<callVars, procVars, popVars, runVars>>

\* register_subprocess_run(&mut registry);
ClosureRegister(t) ==
  /\ threads[t].pc = "closure_register"
  /\ threads' = [threads EXCEPT ![t].pc = "install",
                                ![t].local = register_subprocess_run(threads[t].local)]
  /\ UNCHANGED <<once, registry, installs>>
  /\ UNCHANGED <<callVars, procVars, popVars, runVars>>

\* the closure returns registry: get_or_init stores it, completes the
\* OnceLock and returns the reference to the stored value
Install(t) ==
  /\ threads[t].pc = "install"
  /\ registry' = threads[t].local
  /\ installs' = installs + 1
  /\ once' = "complete"
  /\ threads' = [threads EXCEPT ![t].pc = "lookup",
                                ![t].got = Instance(installs + 1, threads[t].local)]
  /\ UNCHANGED <<callVars, procVars, popVars, runVars>>

\* registry.lookup(name) and the call of the builtin it finds, with no arguments
ThreadLookup(t) ==
  /\ threads[t].pc = "lookup"
  /\ threads' = [threads EXCEPT
                   ![t].pc = "done",
                   ![t].res = eval_builtin_function(threads[t].name, <<>>, OsIdle,
                                                    threads[t].got.entries).result]
  /\ UNCHANGED <<once, registry, installs>>
  /\ UNCHANGED <<callVars, procVars, popVars, runVars>>

----------------------------------------------------------------------------
(* Processo: a handle on one spawned child *)

\* most signals one handle sends
MaxSignals == 2

NoHandle == [exists |-> FALSE, waited |-> FALSE, dropped |-> FALSE]

InitProc ==
  /\ child = "none"
  /\ status = NoneInt
  /\ handle = NoHandle
  /\ waitRet = NoneInt
  /\ sigLog = <<>>
  /\ sigterm = "default"

\* what a child does with SIGTERM: the default action ends it, a child
\* that catches or ignores the signal runs on
Dispositions == {"default", "catch"}

\* Processo { processo: Command::new(..).spawn().unwrap() }
SpawnProcesso ==
  /\ child = "none"
  /\ ~handle.exists
  /\ child' = "running"
  /\ handle' = [exists |-> TRUE, waited |-> FALSE, dropped |-> FALSE]
  /\ sigterm' \in Dispositions
  /\ UNCHANGED <<status, waitRet, sigLog>>
  /\ UNCHANGED <<callVars, regVars, popVars, runVars>>

\* the child ends by itself with an exit code; it stays a zombie until reaped
ChildExits ==
  /\ child = "running"
  /\ \E c \in 0..MaxExitCode :
       /\ child' = "zombie"
       /\ status' = SomeInt(c)
  /\ UNCHANGED <<handle, waitRet, sigLog, sigterm>>
  /\ UNCHANGED <<callVars, regVars, popVars, runVars>>

\* Ok(status.code().unwrap_or(-1)) of Processo::wait
WaitValue(st) == SomeInt(ReturnCode(st))

\* Processo::wait: blocks until the child has ended, reaps it; Child keeps
\* the status, so a later wait returns it again without asking the OS
ProcessoWait ==
  /\ handle.exists
  /\ \/ /\ handle.waited
        /\ UNCHANGED <<child, handle>>
     \/ /\ ~handle.waited
        /\ child = "zombie"
        /\ child' = "reaped"
        /\ handle' = [handle EXCEPT !.waited = TRUE]
  /\ waitRet' = WaitValue(status)
  /\ UNCHANGED <<status, sigLog, sigterm>>
  /\ UNCHANGED <<callVars, regVars, popVars, runVars>>

\* the signal ends a running child: SIGKILL always, SIGTERM unless the
\* child catches or ignores it
Ends(sig) == sig = "SIGKILL" \/ sigterm = "default"

\* a delivery that also collects the child it ended
DeliverReaping(sig) ==
  /\ Len(sigLog) < MaxSignals
  /\ sigLog' = Append(sigLog, [sig |-> sig, target |-> child])
  /\ IF child = "running" /\ Ends(sig)
     THEN child' = "reaped" /\ status' = NoneInt
     ELSE UNCHANGED <<child, status>>

\* delivery of a signal to the process the pid names; the sender goes on
\* at once, the child it ends stays a zombie
Deliver(sig) ==
  /\ Len(sigLog) < MaxSignals
  /\ sigLog' = Append(sigLog, [sig |-> sig, target |-> child])
  /\ IF child = "running" /\ Ends(sig)
     THEN child' = "zombie" /\ status' = NoneInt
     ELSE UNCHANGED <<child, status>>

\* Processo::terminate (not(windows)): signal::kill(pid, SIGTERM)
ProcessoTerminate ==
  /\ handle.exists
  /\ Deliver("SIGTERM")
  /\ UNCHANGED <<handle, waitRet, sigterm>>
  /\ UNCHANGED <<callVars, regVars, popVars, runVars>>

\* Processo::kill: Child::kill sends SIGKILL unless the child was waited on
ProcessoKill ==
  /\ handle.exists
  /\ IF handle.waited
     THEN UNCHANGED <<child, status, sigLog>>
     ELSE Deliver("SIGKILL")
  /\ UNCHANGED <<handle, waitRet, sigterm>>
  /\ UNCHANGED <<callVars, regVars, popVars, runVars>>

\* the Processo goes out of scope: neither Processo nor the
\* std::process::Child in it has a Drop that waits for or ends the child,
\* so the child is left as it is
DropProcesso ==
  /\ handle.exists
  /\ handle' = [handle EXCEPT !.exists = FALSE, !.dropped = TRUE]
  /\ UNCHANGED <<child, status, waitRet, sigLog, sigterm>>
  /\ UNCHANGED <<callVars, regVars, popVars, runVars>>

----------------------------------------------------------------------------
(* popen_command: a child whose streams stay open to the caller *)

\* most bytes a caller writes to one child
MaxWrite == 3

\* bytes a pipe holds before a write to it blocks
PipeCap == 2

\* the bytes a caller writes: "h" and "\n"
Bytes == {104, 10}

\* std::process::Child: the parent's end of each stream of the child, Some
\* (TRUE) for a piped stream until it is taken
Child(stdin, stdout, stderr) == [stdin |-> stdin, stdout |-> stdout, stderr |-> stderr]
NoChild == Child(FALSE, FALSE, FALSE)

\* Command::spawn(): a stream left unset is inherited from the parent, and
\* the Child holds the parent's end of every piped stream
CommandSpawn(cmd, o) ==
  LET proc == [program |-> cmd.program, args |-> cmd.args,
               stdin |-> StdioOr(cmd.stdin, "inherit"),
               stdout |-> StdioOr(cmd.stdout, "inherit"),
               stderr |-> StdioOr(cmd.stderr, "inherit")]
  IN IF o.launch # "ok"
     THEN [ok |-> FALSE, error |-> IoError(o.launch, o.msg), child |-> NoChild,
           children |-> <<>>]
     ELSE [ok |-> TRUE, error |-> IoError("", ""),
           child |-> Child(proc.stdin = "piped", proc.stdout = "piped",
                           proc.stderr = "piped"),
           children |-> <<proc>>]

\* struct PopenProcess
PopenProcess(c, stdin, stdout, stderr) ==
  [child |-> c, stdin |-> stdin, stdout |-> stdout, stderr |-> stderr]
NoPopenProcess == PopenProcess(NoChild, FALSE, FALSE, FALSE)

\* Result<PopenProcess, SubprocessError>, with the children the call spawned
PopenOk(h, children) == [ok |-> TRUE, handle |-> h, err |-> NoError, children |-> children]
PopenErr(e) == [ok |-> FALSE, handle |-> NoPopenProcess, err |-> e, children |-> <<>>]

\* a popen_command that leaves the child's stdin unset
PopenStdinUnset(command, options, o) ==
  IF command = <<>>
  THEN PopenErr(ErrorT("InvalidArguments", "Command cannot be empty"))
  ELSE LET program == command[1]
           sp == CommandSpawn(ConfigureStdio(Command(program, Tail(command)), options), o)
       IN IF sp.ok
          THEN LET c == sp.child
                   cap == options.capture_output
               IN PopenOk(PopenProcess(Child(FALSE,
                                             IF cap THEN FALSE ELSE c.stdout,
                                             IF cap THEN FALSE ELSE c.stderr),
                                       c.stdin,
                                       IF cap THEN c.stdout ELSE FALSE,
                                       IF cap THEN c.stderr ELSE FALSE),
                          sp.children)
          ELSE PopenErr(FromIoErrorT(sp.error, program))

\* a popen_command that hands out the ends and leaves them in the Child too
PopenKeepsEnds(command, options, o) ==
  IF command = <<>>
  THEN PopenErr(ErrorT("InvalidArguments", "Command cannot be empty"))
  ELSE LET program == command[1]
           piped == [Command(program, Tail(command)) EXCEPT !.stdin = "piped"]
           sp == CommandSpawn(ConfigureStdio(piped, options), o)
       IN IF sp.ok
          THEN LET c == sp.child
                   cap == options.capture_output
               IN PopenOk(PopenProcess(c, c.stdin,
                                       IF cap THEN c.stdout ELSE FALSE,
                                       IF cap THEN c.stderr ELSE FALSE),
                          sp.children)
          ELSE PopenErr(FromIoErrorT(sp.error, program))

\* popen_command.  take() moves the parent's end of a stream out of the
\* Child into the PopenProcess and leaves None in the Child
popen_command(command, options, o) ==
  IF command = <<>>
  THEN PopenErr(ErrorT("InvalidArguments", "Command cannot be empty"))
  ELSE LET program == command[1]
           piped == [Command(program, Tail(command)) EXCEPT !.stdin = "piped"]
           sp == CommandSpawn(ConfigureStdio(piped, options), o)
       IN IF sp.ok
          THEN LET c == sp.child
                   cap == options.capture_output
               IN PopenOk(PopenProcess(Child(FALSE,
                                             IF cap THEN FALSE ELSE c.stdout,
                                             IF cap THEN FALSE ELSE c.stderr),
                                       c.stdin,
                                       IF cap THEN c.stdout ELSE FALSE,
                                       IF cap THEN c.stderr ELSE FALSE),
                          sp.children)
          ELSE PopenErr(FromIoErrorT(sp.error, program))

\* cat copies its stdin to its stdout and exits with 0 at end of input;
\* ls of a missing path writes a message to its stderr and exits with 2
PopenCommands == {<<>>, <<"cat">>, <<"ls", "/naoexiste">>}

\* the launch succeeds or fails
PopenLaunches == OsFailures \cup {OsIdle}

NoPopen ==
  [called |-> FALSE, ok |-> FALSE, err |-> NoError, command |-> <<>>,
   options |-> RunOptions(FALSE, FALSE), handle |-> NoPopenProcess,
   dropped |-> FALSE]

NoPchild ==
  [state |-> "none", program |-> "", stdin |-> "", stdout |-> "", stderr |-> "",
   status |-> NoneInt, complained |-> FALSE]

\* the three streams of a child
Streams == {"stdin", "stdout", "stderr"}

\* the last Option::take() of a stream field: the field and what it gave
NoTake == [end |-> "", got |-> FALSE]

\* the code that called popen_command: what it wrote and read, the ends it
\* took out of the PopenProcess and still holds (took), the ends a take ever
\* gave it (everTook), and its join on the child
NoCaller ==
  [written |-> <<>>, brokenPipe |-> FALSE, read |-> <<>>, join |-> "none",
   reads |-> Child(FALSE, FALSE, FALSE), output |-> NoOutput,
   took |-> Child(FALSE, FALSE, FALSE), everTook |-> Child(FALSE, FALSE, FALSE),
   lastTake |-> NoTake]

InitPopen ==
  /\ popen = NoPopen
  /\ pchild = NoPchild
  /\ pipes = [stdin |-> <<>>, stdout |-> <<>>, stderr |-> <<>>]
  /\ caller = NoCaller

\* a call of popen_command
PopenCall ==
  /\ ~popen.called
  /\ \E c \in PopenCommands, opt \in AllOptions, o \in PopenLaunches :
       LET r == popen_command(c, opt, o)
       IN /\ popen' = [called |-> TRUE, ok |-> r.ok, err |-> r.err, command |-> c,
                       options |-> opt, handle |-> r.handle, dropped |-> FALSE]
          /\ pchild' = IF r.children = <<>>
                       THEN pchild
                       ELSE [state |-> "running", program |-> r.children[1].program,
                             stdin |-> r.children[1].stdin,
                             stdout |-> r.children[1].stdout,
                             stderr |-> r.children[1].stderr,
                             status |-> NoneInt, complained |-> FALSE]
  /\ UNCHANGED <<pipes, caller>>
  /\ UNCHANGED <<callVars, regVars, procVars, runVars>>

\* the caller can act on the handle: it has one and is not blocked in a join
CallerFree == popen.ok /\ ~popen.dropped /\ caller.join # "joining"

\* some write end of the child's stdin pipe is open in the caller
StdinOpen == popen.handle.stdin \/ popen.handle.child.stdin \/ caller.took.stdin

\* some read end of the child's stdout pipe is open in the caller
StdoutOpen ==
  \/ popen.handle.stdout
  \/ popen.handle.child.stdout
  \/ caller.took.stdout
  \/ caller.reads.stdout

\* stdin.write_all(..), byte by byte: a write to a full pipe blocks, a
\* write after the child has ended fails with BrokenPipe
WriteStdin ==
  /\ CallerFree
  /\ popen.handle.stdin \/ caller.took.stdin
  /\ Len(caller.written) < MaxWrite
  /\ IF pchild.state = "running"
     THEN /\ Len(pipes.stdin) < PipeCap
          /\ \E b \in Bytes :
               /\ pipes' = [pipes EXCEPT !.stdin = Append(@, b)]
               /\ caller' = [caller EXCEPT !.written = Append(@, b)]
     ELSE /\ ~caller.brokenPipe
          /\ caller' = [caller EXCEPT !.brokenPipe = TRUE]
          /\ UNCHANGED pipes
  /\ UNCHANGED <<popen, pchild>>
  /\ UNCHANGED <<callVars, regVars, procVars, runVars>>

\* drop(process.stdin.take()): the caller closes its end of the child's stdin
DropStdin ==
  /\ CallerFree
  /\ popen.handle.stdin
  /\ popen' = [popen EXCEPT !.handle.stdin = FALSE]
  /\ caller' = [caller EXCEPT !.everTook.stdin = TRUE,
                              !.lastTake = [end |-> "stdin", got |-> TRUE]]
  /\ UNCHANGED <<pchild, pipes>>
  /\ UNCHANGED <<callVars, regVars, procVars, runVars>>

\* process.<stream>.take(): Option::take gives what the field holds, Some
\* end or None, and leaves None in the field
TakeEnd ==
  /\ CallerFree
  /\ \E s \in Streams :
       /\ popen' = [popen EXCEPT !.handle[s] = FALSE]
       /\ caller' = [caller EXCEPT !.took[s] = @ \/ popen.handle[s],
                                   !.everTook[s] = @ \/ popen.handle[s],
                                   !.lastTake = [end |-> s, got |-> popen.handle[s]]]
  /\ UNCHANGED <<pchild, pipes>>
  /\ UNCHANGED <<callVars, regVars, procVars, runVars>>

\* drop(end): the caller closes an end it took
DropTaken ==
  /\ popen.ok
  /\ caller.join # "joining"
  /\ \E s \in Streams :
       /\ caller.took[s]
       /\ caller' = [caller EXCEPT !.took[s] = FALSE]
  /\ UNCHANGED <<popen, pchild, pipes>>
  /\ UNCHANGED <<callVars, regVars, procVars, runVars>>

\* the PopenProcess goes out of scope: its fields are dropped, which closes
\* the ends it holds; neither PopenProcess nor std::process::Child has a
\* Drop that waits for the child, so the child is left as it is
DropHandle ==
  /\ CallerFree
  /\ popen' = [popen EXCEPT !.handle = NoPopenProcess, !.dropped = TRUE]
  /\ UNCHANGED <<pchild, pipes, caller>>
  /\ UNCHANGED <<callVars, regVars, procVars, runVars>>

\* process.stdout: the caller reads a byte from its end of the child's stdout
HandleRead ==
  /\ popen.ok
  /\ caller.join # "joining"
  /\ popen.handle.stdout \/ caller.took.stdout
  /\ pipes.stdout # <<>>
  /\ caller' = [caller EXCEPT !.read = Append(@, Head(pipes.stdout))]
  /\ pipes' = [pipes EXCEPT !.stdout = Tail(@)]
  /\ UNCHANGED <<popen, pchild>>
  /\ UNCHANGED <<callVars, regVars, procVars, runVars>>

\* cat copies one byte from its stdin to its stdout; the write blocks while
\* the pipe is full, and a write to a pipe nobody can read raises SIGPIPE,
\* which ends cat
CatCopies ==
  /\ pchild.state = "running"
  /\ pchild.program = "cat"
  /\ pipes.stdin # <<>>
  /\ IF pchild.stdout = "piped" /\ ~StdoutOpen
     THEN /\ pchild' = [pchild EXCEPT !.state = "zombie", !.status = NoneInt]
          /\ UNCHANGED pipes
     ELSE IF pchild.stdout = "piped"
     THEN /\ Len(pipes.stdout) < PipeCap
          /\ pipes' = [pipes EXCEPT !.stdin = Tail(@),
                                    !.stdout = Append(@, Head(pipes.stdin))]
          /\ UNCHANGED pchild
     ELSE /\ pipes' = [pipes EXCEPT !.stdin = Tail(@)]
          /\ UNCHANGED pchild
  /\ UNCHANGED <<popen, caller>>
  /\ UNCHANGED <<callVars, regVars, procVars, runVars>>

\* ls writes its message about the missing path to its stderr
LsComplains ==
  /\ pchild.state = "running"
  /\ pchild.program = "ls"
  /\ ~pchild.complained
  /\ pchild' = [pchild EXCEPT !.complained = TRUE]
  /\ IF pchild.stderr = "piped"
     THEN pipes' = [pipes EXCEPT !.stderr = Append(@, 101)]
     ELSE UNCHANGED pipes
  /\ UNCHANGED <<popen, caller>>
  /\ UNCHANGED <<callVars, regVars, procVars, runVars>>

\* the child ends: cat at the end of its input (the pipe is empty and no
\* write end is open), ls after its message
PopenChildExits ==
  /\ pchild.state = "running"
  /\ \/ /\ pchild.program = "cat"
        /\ pipes.stdin = <<>>
        /\ ~StdinOpen
        /\ pchild' = [pchild EXCEPT !.state = "zombie", !.status = SomeInt(0)]
     \/ /\ pchild.program = "ls"
        /\ pchild.complained
        /\ pchild' = [pchild EXCEPT !.state = "zombie", !.status = SomeInt(2)]
  /\ UNCHANGED <<popen, pipes, caller>>
  /\ UNCHANGED <<callVars, regVars, procVars, runVars>>

\* process.child.wait_with_output(): Child::wait_with_output drops the
\* stdin the Child holds and takes the stdout and stderr the Child holds
WaitWithOutput ==
  /\ CallerFree
  /\ caller.join = "none"
  /\ caller' = [caller EXCEPT !.join = "joining",
                              !.reads = Child(FALSE, popen.handle.child.stdout,
                                              popen.handle.child.stderr)]
  /\ popen' = [popen EXCEPT !.handle.child = NoChild]
  /\ UNCHANGED <<pchild, pipes>>
  /\ UNCHANGED <<callVars, regVars, procVars, runVars>>

\* wait_with_output goes on: it reads the streams it took to end of file,
\* then waits for the child, reaps it and returns the Output
JoinStep ==
  /\ caller.join = "joining"
  /\ IF caller.reads.stdout /\ pipes.stdout # <<>>
     THEN /\ caller' = [caller EXCEPT !.output.stdout = Append(@, Head(pipes.stdout))]
          /\ pipes' = [pipes EXCEPT !.stdout = Tail(@)]
          /\ UNCHANGED pchild
     ELSE IF caller.reads.stderr /\ pipes.stderr # <<>>
     THEN /\ caller' = [caller EXCEPT !.output.stderr = Append(@, Head(pipes.stderr))]
          /\ pipes' = [pipes EXCEPT !.stderr = Tail(@)]
          /\ UNCHANGED pchild
     ELSE /\ pchild.state = "zombie"
          /\ caller' = [caller EXCEPT !.join = "done", !.output.status = pchild.status]
          /\ pchild' = [pchild EXCEPT !.state = "reaped"]
          /\ UNCHANGED pipes
  /\ UNCHANGED popen
  /\ UNCHANGED <<callVars, regVars, procVars, runVars>>

----------------------------------------------------------------------------
(* run_command and run_shell_command step by step: what the thread of the *)
(* call and the child do while the call is inside cmd.output()            *)

\* an output() that only spawns the child
CmdSpawnOnly == <<"spawn">>

\* the steps of cmd.output(), in program order: spawn the child, read its
\* piped streams to end of file, wait for it
CmdOutputSteps == <<"spawn", "drain", "wait">>

\* the entry point named fn, called with command, options against the OS
EngineOf(fn, command, options, o) ==
  IF fn = "run_command"
  THEN run_command(command, options, o)
  ELSE run_shell_command(command[1], options, o)

NoRun ==
  [fn |-> "none", command |-> <<>>, options |-> DefaultRunOptions, o |-> OsIdle,
   step |-> 0, cstate |-> "none", toOut |-> <<>>, toErr |-> <<>>,
   pipeOut |-> <<>>, pipeErr |-> <<>>, gotOut |-> <<>>, gotErr |-> <<>>,
   returned |-> FALSE, result |-> NoEngineResult]

InitRun == run = NoRun

\* the step of cmd.output() the call is at, "" outside it
RunStep ==
  IF run.step \in 1..Len(CmdOutputSteps) THEN CmdOutputSteps[run.step] ELSE ""

\* the call enters run_command or run_shell_command: an empty command
\* returns InvalidArguments at once, any other goes on to cmd.output()
RunEnter ==
  /\ run.fn = "none"
  /\ \E fn \in {"run_command", "run_shell_command"}, opt \in AllOptions,
        o \in OsBehaviours :
       \E c \in IF fn = "run_command" THEN EngineCommands
                ELSE {<<sc>> : sc \in ShellCommands} :
         LET r == EngineOf(fn, c, opt, o)
         IN /\ OsAllows(EngineCall(fn, c, opt), o)
            /\ run' = IF ReachedOs(r)
                      THEN [NoRun EXCEPT !.fn = fn, !.command = c, !.options = opt,
                                         !.o = o, !.step = 1]
                      ELSE [NoRun EXCEPT !.fn = fn, !.command = c, !.options = opt,
                                         !.returned = TRUE, !.result = r]
  /\ UNCHANGED <<callVars, regVars, procVars, popVars>>

\* output(): the spawn.  A failed launch ends output() with the io::Error,
\* which the Err(e) arm turns into the SubprocessError returned
OutputSpawn ==
  /\ RunStep = "spawn"
  /\ LET r == EngineOf(run.fn, run.command, run.options, run.o)
     IN IF r.children = <<>>
        THEN run' = [run EXCEPT !.step = 0, !.returned = TRUE, !.result = r]
        ELSE run' = [run EXCEPT
                       !.step = @ + 1,
                       !.cstate = "running",
                       !.toOut = IF r.children[1].stdout = "piped" THEN run.o.out ELSE <<>>,
                       !.toErr = IF r.children[1].stderr = "piped" THEN run.o.err ELSE <<>>]
  /\ UNCHANGED <<callVars, regVars, procVars, popVars>>

\* the child writes a byte to its stdout or stderr; a write to a full pipe
\* blocks
RunChildWrites ==
  /\ run.cstate = "running"
  /\ \/ /\ run.toOut # <<>>
        /\ Len(run.pipeOut) < PipeCap
        /\ run' = [run EXCEPT !.toOut = Tail(@), !.pipeOut = Append(@, Head(run.toOut))]
     \/ /\ run.toErr # <<>>
        /\ Len(run.pipeErr) < PipeCap
        /\ run' = [run EXCEPT !.toErr = Tail(@), !.pipeErr = Append(@, Head(run.toErr))]
  /\ UNCHANGED <<callVars, regVars, procVars, popVars>>

\* the child ends after its last write, which closes its ends of the pipes
RunChildExits ==
  /\ run.cstate = "running"
  /\ run.toOut = <<>>
  /\ run.toErr = <<>>
  /\ run' = [run EXCEPT !.cstate = "zombie"]
  /\ UNCHANGED <<callVars, regVars, procVars, popVars>>

\* output(): both pipes are read as bytes arrive, until both are at end of
\* file (empty, and the child's ends closed)
OutputDrain ==
  /\ RunStep = "drain"
  /\ \/ /\ run.pipeOut # <<>>
        /\ run' = [run EXCEPT !.pipeOut = Tail(@), !.gotOut = Append(@, Head(run.pipeOut))]
     \/ /\ run.pipeErr # <<>>
        /\ run' = [run EXCEPT !.pipeErr = Tail(@), !.gotErr = Append(@, Head(run.pipeErr))]
     \/ /\ run.pipeOut = <<>>
        /\ run.pipeErr = <<>>
        /\ run.cstate = "zombie"
        /\ run' = [run EXCEPT !.step = @ + 1]
  /\ UNCHANGED <<callVars, regVars, procVars, popVars>>

\* output(): the wait blocks until the child has ended and reaps it
OutputWait ==
  /\ RunStep = "wait"
  /\ run.cstate = "zombie"
  /\ run' = [run EXCEPT !.cstate = "reaped", !.step = @ + 1]
  /\ UNCHANGED <<callVars, regVars, procVars, popVars>>

\* output() is over: the Ok(output) arm builds the CompletedProcess from
\* the status and the bytes output() collected
RunReturn ==
  /\ run.step > Len(CmdOutputSteps)
  /\ ~run.returned
  /\ LET st == IF run.cstate = "reaped" THEN run.o.status ELSE NoneInt
     IN run' = [run EXCEPT
                  !.step = 0,
                  !.returned = TRUE,
                  !.result = EngineOf(run.fn, run.command, run.options,
                                      OsRun(st, run.gotOut, run.gotErr))]
  /\ UNCHANGED <<callVars, regVars, procVars, popVars>>

\* the caller has the result; the next call starts afresh
RunLeave ==
  /\ run.returned
  /\ run' = NoRun
  /\ UNCHANGED <<callVars, regVars, procVars, popVars>>

----------------------------------------------------------------------------
(* Specifications *)

Init == InitCalls /\ InitReg /\ InitProc /\ InitPopen /\ InitRun

NextCalls ==
  \/ BridgeCall
  \/ EvalBuiltinCall
  \/ RunCommandCall
  \/ RunShellCall
  \/ FromIoErrorCall
  \/ DisplayTCall
  \/ DisplayICall
  \/ Return

NextExit ==
  \/ RunCommandCall
  \/ RunShellCall
  \/ Return
  \/ SpawnProcesso
  \/ ChildExits
  \/ ProcessoWait
  \/ ProcessoTerminate
  \/ ProcessoKill
  \/ DropProcesso

NextRegistry ==
  \E t \in Threads :
    \/ ThreadCall(t)
    \/ GetOrInit(t)
    \/ ClosureNew(t)
    \/ ClosureRegister(t)
    \/ Install(t)
    \/ ThreadLookup(t)

NextPopen ==
  \/ PopenCall
  \/ WriteStdin
  \/ DropStdin
  \/ TakeEnd
  \/ DropTaken
  \/ DropHandle
  \/ HandleRead
  \/ CatCopies
  \/ LsComplains
  \/ PopenChildExits
  \/ WaitWithOutput
  \/ JoinStep

NextRun ==
  \/ RunEnter
  \/ OutputSpawn
  \/ RunChildWrites
  \/ RunChildExits
  \/ OutputDrain
  \/ OutputWait
  \/ RunReturn
  \/ RunLeave

\* the builtin bridge, the engine and the error taxonomies
Spec == Init /\ [][NextCalls]_vars

\* the engine and the Processo handle: everything that reports an exit code
SpecExit == Init /\ [][NextExit]_vars

\* concurrent first calls of eval_builtin_function
SpecRegistry == Init /\ [][NextRegistry]_vars

\* popen_command, the caller's use of the streams, and the child
SpecPopen == Init /\ [][NextPopen]_vars

\* one call of the engine after another, each with its child beside it
SpecRun == Init /\ [][NextRun]_vars

----------------------------------------------------------------------------
(* Properties *)

\* the last call went through the bridge
InBridge == op = "subprocess_run_builtin"

\* the last call entered run_command or run_shell_command
InEngine == engineCall.fn # "none"

\* C1: when the arguments of subprocess.run pass validation and the engine
\* returns a SubprocessError, the builtin returns Ok(Value(CErr(CString(s))))
\* with s the error's display string, never a hard Err
C1_EngineErrorIsFailureValue ==
  (InBridge /\ InEngine /\ ~engineResult.ok)
    => /\ result.kind = "Value"
       /\ result.value = CErr(CString(DisplayT(engineResult.err)))

C1_Witness ==
  /\ InBridge
  /\ InEngine
  /\ engineResult.err.variant = "CommandNotFound"
  /\ result.value.tag = "CErr"
  /\ result.value.items[1].s = "Command not found: echo"

ArityBad == Len(args) = 0 \/ Len(args) > 3
AllValues == \A i \in 1..Len(args) : args[i].outcome = "Value"
FirstIsList == args[1].expr.tag = "ListValue"
FirstIsString == args[1].expr.tag = "CString"
FirstBad == ~FirstIsList /\ ~FirstIsString
ListNonString ==
  FirstIsList /\ \E i \in 1..Len(args[1].expr.items) : args[1].expr.items[i].tag # "CString"
ListEmpty == FirstIsList /\ args[1].expr.items = <<>>
NotBoolean(i) == Len(args) >= i /\ args[i].expr.tag \notin {"CTrue", "CFalse"}
CommandBad == FirstBad \/ ListNonString \/ ListEmpty
ContractViolation ==
  ArityBad \/ (AllValues /\ (CommandBad \/ NotBoolean(2) \/ NotBoolean(3)))

ShellRequested == Len(args) >= 2 /\ args[2].expr.tag = "CTrue"

\* C3 as stated: a string command is executed through run_shell_command
\* whatever the shell flag, a list through run_command
C3_StringAlwaysShell ==
  (InBridge /\ InEngine)
    => /\ FirstIsString => engineCall.fn = "run_shell_command"
       /\ (FirstIsList /\ ~ShellRequested) => engineCall.fn = "run_command"

\* C3, amended: the shell flag selects the entry point.  A string command
\* goes through run_shell_command when shell is true and through
\* run_command, as a one-element argv, when shell is false or omitted; a
\* list with shell false or omitted goes through run_command element by
\* element
C3_ShellFlagSelectsEngine ==
  (InBridge /\ InEngine)
    => /\ (FirstIsString /\ ShellRequested)
            => /\ engineCall.fn = "run_shell_command"
               /\ engineCall.command = <<args[1].expr.s>>
               /\ spawned # <<>> => /\ spawned[1].program = "sh"
                                    /\ spawned[1].args = <<"-c", args[1].expr.s>>
       /\ (FirstIsString /\ ~ShellRequested)
            => /\ engineCall.fn = "run_command"
               /\ engineCall.command = <<args[1].expr.s>>
               /\ spawned # <<>> => /\ spawned[1].program = args[1].expr.s
                                    /\ spawned[1].args = <<>>
       /\ (FirstIsList /\ ~ShellRequested)
            => /\ engineCall.fn = "run_command"
               /\ engineCall.command = CmdVec(args[1].expr.items)

C3_Witness ==
  /\ InBridge
  /\ InEngine
  /\ FirstIsString
  /\ ~ShellRequested
  /\ engineCall.fn = "run_command"
  /\ spawned # <<>>
  /\ spawned[1].program = "echo hi"

\* C4: on every successful return of the engine, stdout and stderr are both
\* None when capture_output is false and both Some when it is true,
\* whatever the exit status
C4_OutputsSomeIffCapture ==
  (InEngine /\ engineResult.ok)
    => /\ engineResult.cp.stdout.some = engineCall.options.capture_output
       /\ engineResult.cp.stderr.some = engineCall.options.capture_output

C4_Witness ==
  /\ InEngine
  /\ engineResult.ok
  /\ engineCall.options.capture_output
  /\ engineResult.cp.returncode # 0
  /\ engineResult.cp.stdout = Some("")
  /\ engineResult.cp.stderr = Some("e")

\* C5: with capture_output false the child's stdout and stderr are not
\* pipes: the child inherits the caller's stdio, and the result carries
\* None for both
C5_NoCaptureInheritsStdio ==
  (InEngine /\ ~engineCall.options.capture_output /\ spawned # <<>>)
    => /\ spawned[1].stdout = "inherit"
       /\ spawned[1].stderr = "inherit"
       /\ engineResult.cp.stdout = None
       /\ engineResult.cp.stderr = None

AllWhitespace(str) == \A i \in 1..Len(str) : CharAt(str, i) \in {" ", "\t", "\n"}

\* the engine was entered with an empty command
EmptyCommand ==
  \/ engineCall.fn = "run_command" /\ engineCall.command = <<>>
  \/ engineCall.fn = "run_shell_command" /\ AllWhitespace(engineCall.command[1])

\* C6: a child that was launched gives Ok(CompletedProcess) with its exit
\* code, zero or not; Err is returned only for an empty command or a
\* failed launch
C6_NonZeroExitIsOk ==
  InEngine
    => /\ (os.launch = "ok" /\ spawned # <<>>)
            => /\ engineResult.ok
               /\ os.status.some => engineResult.cp.returncode = os.status.v
       /\ ~engineResult.ok => (EmptyCommand \/ os.launch # "ok")

C6_Witness ==
  /\ InEngine
  /\ spawned # <<>>
  /\ os.status = SomeInt(1)
  /\ engineResult.ok
  /\ engineResult.cp.returncode = 1

\* C7: run_command with an empty list and run_shell_command with a string
\* that is empty after trimming return InvalidArguments with "empty" in the
\* message, for every RunOptions, and spawn nothing
C7_EmptyCommandIsInvalidArguments ==
  (InEngine /\ EmptyCommand)
    => /\ ~engineResult.ok
       /\ engineResult.err.variant = "InvalidArguments"
       /\ Contains(engineResult.err.payload, "empty")
       /\ spawned = <<>>

C7_Witness ==
  /\ op = "run_shell_command"
  /\ engineCall.command = <<" \n\t">>
  /\ engineCall.options = RunOptions(TRUE, TRUE)
  /\ engineResult.err.variant = "InvalidArguments"
  /\ spawned = <<>>

\* the code the OS reports for st, -1 when it reports none
ReportedCode(st) == IF st.some THEN st.v ELSE -1

\* C8: the exit code run_command, run_shell_command and Processo::wait
\* report is the OS status code of a child that exited normally, and -1
\* for a child that a signal ended
C8_ExitCodeOrMinusOne ==
  /\ (InEngine /\ engineResult.ok) => engineResult.cp.returncode = ReportedCode(os.status)
  /\ waitRet.some => waitRet.v = ReportedCode(status)

C8_Witness ==
  /\ waitRet = SomeInt(-1)
  /\ child = "reaped"
  /\ sigLog # <<>>
  /\ op = "run_shell_command"
  /\ engineResult.ok
  /\ engineResult.cp.returncode = 2

\* C9: from_io_error maps NotFound to CommandNotFound(command),
\* PermissionDenied to PermissionDenied(command) and every other kind to
\* one variant whose message holds the command name and the native
\* message; run_command on a missing program returns CommandNotFound with
\* the program name
C9_FromIoErrorByKind ==
  /\ op = "from_io_error"
       => LET e == ioIn.error
              c == ioIn.command
          IN /\ e.kind = "NotFound"
                  => /\ ioOut.t = ErrorT("CommandNotFound", c)
                     /\ ioOut.i = ErrorI("CommandNotFound", c)
             /\ e.kind = "PermissionDenied"
                  => /\ ioOut.t = ErrorT("PermissionDenied", c)
                     /\ ioOut.i = ErrorI("PermissionDenied", c)
             /\ e.kind \notin {"NotFound", "PermissionDenied"}
                  => /\ ioOut.t.variant = "ExecutionFailed"
                     /\ ioOut.i.variant = "IoError"
                     /\ Contains(ioOut.t.payload, c) /\ Contains(ioOut.t.payload, e.msg)
                     /\ Contains(ioOut.i.payload, c) /\ Contains(ioOut.i.payload, e.msg)
  /\ (engineCall.fn = "run_command" /\ engineCall.command # <<>> /\ os.launch = "NotFound")
       => /\ ~engineResult.ok
          /\ engineResult.err = ErrorT("CommandNotFound", engineCall.command[1])

C9_Witness ==
  /\ op = "from_io_error"
  /\ ioIn.error.kind = "WouldBlock"
  /\ ioIn.command = "some_cmd"
  /\ ioOut.t.payload = "some_cmd: Resource temporarily unavailable (os error 11)"

\* the text before and after the first ": " of a string
ColonAt(str) ==
  CHOOSE i \in 1..Len(str) :
    /\ SubSeq(str, i, i + 1) = ": "
    /\ \A j \in 1..(i - 1) : SubSeq(str, j, j + 1) # ": "
Category(str) == SubSeq(str, 1, ColonAt(str) - 1)
Detail(str) == SubSeq(str, ColonAt(str) + 2, Len(str))

\* str is "<Category>: <detail>" with the payload of e as the detail
CategoryForm(e, str) == Contains(str, ": ") /\ Detail(str) = e.payload

\* C10 as stated: every variant of either taxonomy converts to
\* "<Category>: <detail>", the category fixed per variant and the detail the
\* payload, and different errors give different strings
C10_EveryVariantCategoryForm ==
  op = "display"
    => /\ CategoryForm(shown.e1, shown.s1)
       /\ CategoryForm(shown.e2, shown.s2)
       /\ shown.e1.variant = shown.e2.variant => Category(shown.s1) = Category(shown.s2)
       /\ shown.s1 = shown.s2 => shown.e1 = shown.e2

\* the struct variant of interpreter/subprocess_errors.rs
IsStructVariant(e) == shown.tax = "I" /\ e.variant = "ExecutionFailed"

\* the text of the struct variant up to its exit code
StructForm(e, str) == StartsWith(str, "Command '" \o e.payload \o "' failed with exit code ")

\* C10, amended: every variant of the types.rs taxonomy, and every variant
\* of subprocess_errors.rs but the struct variant ExecutionFailed, converts
\* to "<Category>: <detail>"; ExecutionFailed { .. } converts to
\* "Command '<name>' failed with exit code ..."; in both taxonomies
\* different errors give different strings
C10_CategoryFormButStruct ==
  op = "display"
    => /\ IF IsStructVariant(shown.e1)
          THEN StructForm(shown.e1, shown.s1)
          ELSE CategoryForm(shown.e1, shown.s1)
       /\ IF IsStructVariant(shown.e2)
          THEN StructForm(shown.e2, shown.s2)
          ELSE CategoryForm(shown.e2, shown.s2)
       /\ (shown.e1.variant = shown.e2.variant /\ ~IsStructVariant(shown.e1))
            => Category(shown.s1) = Category(shown.s2)
       /\ shown.s1 = shown.s2 => shown.e1 = shown.e2

C10_Witness ==
  /\ op = "display"
  /\ shown.tax = "T"
  /\ shown.e1 = ErrorT("CommandNotFound", "foo")
  /\ shown.e2 = ErrorT("InvalidArguments", "Command not found: foo")
  /\ shown.s1 = "Command not found: foo"
  /\ shown.s2 = "Invalid arguments: Command not found: foo"

\* the last call ran subprocess_run_builtin, called directly or through
\* eval_builtin_function
InBuiltin ==
  \/ op = "subprocess_run_builtin"
  \/ op = "eval_builtin_function" /\ lookup(registry, callee).some

\* argument i is evaluated and its evaluation gives Propagate
PropagatesAt(i) ==
  /\ ~ArityBad
  /\ i \in 1..Len(args)
  /\ args[i].outcome = "Propagate"
  /\ \A k \in 1..(i - 1) : args[k].outcome = "Value"

\* C11: when the evaluation of an argument of subprocess.run gives
\* Propagate(e), the builtin returns Ok(Propagate(e)) with that e at once:
\* no later argument is evaluated, no validation error is reported, the
\* engine is not entered and no process is spawned
C11_PropagateForwardedAtOnce ==
  InBuiltin
    => \A i \in 1..Len(args) :
         PropagatesAt(i)
           => /\ result = OkPropagate(args[i].expr)
              /\ evals = i
              /\ ~InEngine
              /\ spawned = <<>>

C11_Witness ==
  /\ InBuiltin
  /\ Len(args) = 3
  /\ PropagatesAt(2)
  /\ args[1].expr.tag = "CInt"
  /\ args[3].outcome = "Err"
  /\ result = OkPropagate(CString("early"))
  /\ evals = 2

\* the call with the omitted trailing arguments written out as false
Padded(a) ==
  CASE Len(a) = 1 -> a \o <<ArgValue(CFalse), ArgValue(CFalse)>>
    [] Len(a) = 2 -> a \o <<ArgValue(CFalse)>>
    [] OTHER -> a

\* the result is a CompletedProcess value
IsCompletedProcess == result.kind = "Value" /\ result.value.tag = "CompletedProcess"

\* C12: omitted trailing arguments default to off: a call with one or two
\* arguments has the result, the engine call and the engine result of the
\* same call with false written for each omitted argument; without a
\* capture_output argument the engine is called with capture_output false
\* and the result has stdout = None and stderr = None
C12_OmittedArgumentsAreOff ==
  (InBuiltin /\ Len(args) \in {1, 2})
    => LET full == subprocess_run_builtin(Padded(args), os)
       IN /\ result = full.result
          /\ engineCall = full.engine
          /\ engineResult = full.eres
          /\ InEngine => ~engineCall.options.capture_output
          /\ (InEngine /\ Len(args) = 1) => ~engineCall.options.shell
          /\ IsCompletedProcess
               => /\ result.value.stdout = None
                  /\ result.value.stderr = None

C12_Witness ==
  /\ InBuiltin
  /\ Len(args) = 1
  /\ os.out # <<>>
  /\ spawned # <<>>
  /\ IsCompletedProcess
  /\ result.value.stdout = None
  /\ engineCall.options = RunOptions(FALSE, FALSE)

\* C13: a list command with shell false or omitted is launched directly:
\* the program is the first element, the argument vector the remaining
\* elements in their order and unchanged, and the only process started is
\* that program, not a shell
C13_DirectModeArgvVerbatim ==
  (InBuiltin /\ InEngine /\ FirstIsList /\ ~ShellRequested)
    => LET items == args[1].expr.items
       IN /\ engineCall.fn = "run_command"
          /\ engineCall.command = [i \in 1..Len(items) |-> items[i].s]
          /\ Len(spawned) <= 1
          /\ os.launch = "ok" => Len(spawned) = 1
          /\ spawned # <<>>
               => /\ spawned[1].program = items[1].s
                  /\ spawned[1].args = [i \in 1..(Len(items) - 1) |-> items[i + 1].s]

C13_Witness ==
  /\ InBuiltin
  /\ InEngine
  /\ FirstIsList
  /\ Len(args) = 2
  /\ ~ShellRequested
  /\ Len(spawned) = 1
  /\ spawned[1].program = "echo"
  /\ spawned[1].args = <<"a b", "$HOME; ls">>

\* C14: with shell true and a list command of n >= 1 strings the bridge
\* calls run_shell_command with the first element alone: the shell gets
\* "-c" and that element, and elements 2..n reach neither the shell nor
\* the child
C14_ShellListUsesFirstElement ==
  (InBuiltin /\ InEngine /\ FirstIsList /\ ShellRequested)
    => LET items == args[1].expr.items
       IN /\ engineCall.fn = "run_shell_command"
          /\ engineCall.command = <<items[1].s>>
          /\ Len(spawned) <= 1
          /\ spawned # <<>>
               => /\ spawned[1].program = "sh"
                  /\ spawned[1].args = <<"-c", items[1].s>>

C14_Witness ==
  /\ InBuiltin
  /\ InEngine
  /\ FirstIsList
  /\ ShellRequested
  /\ Len(args[1].expr.items) = 3
  /\ engineCall.fn = "run_shell_command"
  /\ Len(spawned) = 1
  /\ spawned[1].args = <<"-c", "echo">>

\* C15: eval_builtin_function with a name the registry does not hold
\* returns Ok(None) whatever the arguments: no error, no argument
\* evaluated, the engine not entered, no process spawned
C15_UnknownNameIsOkNone ==
  (op = "eval_builtin_function" /\ ~lookup(registry, callee).some)
    => /\ result = OkNone
       /\ evals = 0
       /\ ~InEngine
       /\ spawned = <<>>

C15_Witness ==
  /\ op = "eval_builtin_function"
  /\ callee = "nonexistent.function"
  /\ Len(args) = 3
  /\ AllValues
  /\ ~ContractViolation
  /\ result = OkNone
  /\ evals = 0

\* the registry the closure of get_builtin_registry builds
OneEntry == {Entry("subprocess.run", "subprocess_run_builtin")}

\* a thread has its reference to the registry
Obtained(t) == threads[t].pc \in {"lookup", "done"}

\* C16: however the threads that call get_builtin_registry for the first
\* time interleave, a value is stored in the OnceLock once at most, every
\* thread that has its reference has the reference to that one stored
\* value, and the registry it sees holds subprocess.run
C16_RegistryInstalledOnce ==
  /\ installs <= 1
  /\ \A t \in Threads :
       Obtained(t)
         => /\ once = "complete"
            /\ installs = 1
            /\ threads[t].got = Instance(1, OneEntry)
            /\ registry = OneEntry
  /\ \A t \in Threads :
       (threads[t].pc = "done" /\ threads[t].name = "subprocess.run")
         => threads[t].res.kind = "Err"

C16_Witness ==
  /\ \A t \in Threads : threads[t].pc = "done"
  /\ installs = 1
  /\ threads[1].name = "subprocess.run"
  /\ threads[2].name = "nonexistent.function"
  /\ threads[2].res = OkNone

\* C17: once it is initialized the registry holds the one entry
\* subprocess.run -> subprocess_run_builtin, and no call of
\* eval_builtin_function, whatever its outcome, changes the registry or
\* stores a value in the OnceLock again
C17_RegistryImmutable ==
  [][once' = "complete"
       => /\ registry' = OneEntry
          /\ once = "complete"
               => /\ registry' = registry
                  /\ installs' = installs]_vars

C17_Witness ==
  /\ once = "complete"
  /\ installs = 1
  /\ registry = OneEntry
  /\ op = "eval_builtin_function"
  /\ callee = "subprocess.call"
  /\ result = OkNone

\* the step is a terminate or kill call that sent its signal
SignalSent == sigLog' # sigLog

\* the step is the wait call that reaps the child
FirstWait == handle'.waited /\ ~handle.waited

\* a signal was sent to the child while it ran
SignalledRunning == \E i \in 1..Len(sigLog) : sigLog[i].target = "running"

\* a signal that ends the child was sent to it while it ran
EndedBySignal ==
  \E i \in 1..Len(sigLog) :
    sigLog[i].target = "running" /\ (sigLog[i].sig = "SIGKILL" \/ sigterm = "default")

\* terminate and kill return without a wait and without reaping, and only
\* wait reaps the child
FireAndForget ==
  /\ SignalSent
       => /\ handle' = handle
          /\ waitRet' = waitRet
          /\ child' = "reaped" => child = "reaped"
  /\ (child' = "reaped" /\ child # "reaped") => FirstWait

\* C18 as stated: terminate and kill are fire-and-forget, and wait after a
\* terminate or kill of a running child returns -1
C18_SignalThenWaitIsMinusOne ==
  [][/\ FireAndForget
     /\ (FirstWait /\ SignalledRunning) => waitRet' = SomeInt(-1)]_vars

\* C18, amended: terminate and kill are fire-and-forget: they return
\* without waiting and without reaping, and the child stays unreaped until
\* wait is called.  wait returns -1 when the signal ended the child, which
\* SIGKILL does to every running child and SIGTERM to one that neither
\* catches nor ignores it; a child that ran on after SIGTERM and exited by
\* itself gives its own exit code
C18_SignalThatEndsChildIsMinusOne ==
  [][/\ FireAndForget
     /\ (FirstWait /\ EndedBySignal) => waitRet' = SomeInt(-1)
     /\ (FirstWait /\ SignalledRunning /\ ~EndedBySignal)
          => (status.some /\ waitRet' = status)]_vars

C18_Witness ==
  /\ sigLog = <<[sig |-> "SIGTERM", target |-> "running"]>>
  /\ sigterm = "default"
  /\ handle.waited
  /\ child = "reaped"
  /\ waitRet = SomeInt(-1)
  /\ op = "idle"

\* C19: after popen_command with capture_output on cat, the bytes B the
\* caller wrote to the handle's stdin before it dropped that stdin come
\* back from child.wait_with_output(): output.stdout = B, stderr is empty
\* and the exit code is 0
C19_CatRoundTrip ==
  (/\ popen.ok
   /\ popen.command = <<"cat">>
   /\ popen.options.capture_output
   /\ ~popen.handle.stdin
   /\ caller.read = <<>>
   /\ caller.join = "done")
    => /\ caller.output.stdout = caller.written
       /\ caller.output.stderr = <<>>
       /\ caller.output.status = SomeInt(0)

\* the step is a successful return of popen_command
PopenReturnsOk == ~popen.called /\ popen'.called /\ popen'.ok

\* C20: on every successful return of popen_command the child has a piped
\* stdin and the handle holds its stdin; with capture_output the child's
\* stdout and stderr are pipes and the handle holds both, without it the
\* child inherits both and the handle holds neither
C20_PopenStreams ==
  [][PopenReturnsOk
       => /\ pchild'.state = "running"
          /\ pchild'.stdin = "piped"
          /\ popen'.handle.stdin
          /\ popen'.handle.stdout = popen'.options.capture_output
          /\ popen'.handle.stderr = popen'.options.capture_output
          /\ IF popen'.options.capture_output
             THEN pchild'.stdout = "piped" /\ pchild'.stderr = "piped"
             ELSE pchild'.stdout = "inherit" /\ pchild'.stderr = "inherit"]_vars

C20_Witness ==
  /\ popen.ok
  /\ popen.command = <<"ls", "/naoexiste">>
  /\ ~popen.options.capture_output
  /\ popen.handle.stdin
  /\ ~popen.handle.stdout
  /\ ~popen.handle.stderr
  /\ pchild.stdin = "piped"
  /\ pchild.stdout = "inherit"
  /\ caller = NoCaller

\* who holds the parent's end of stream s: the Child value, the field of
\* the PopenProcess, the caller who took it, the join that reads it
Holders(s) ==
  {h \in {"child", "field", "caller", "join"} :
     \/ h = "child" /\ popen.handle.child[s]
     \/ h = "field" /\ popen.handle[s]
     \/ h = "caller" /\ caller.took[s]
     \/ h = "join" /\ caller.reads[s]}

\* C21: after popen_command returned, every step leaves each parent-side
\* pipe end with at most one holder among the Child value, the PopenProcess
\* field and the caller; a take gives what the field held and leaves None
\* in it, so a take of an end that was taken before yields nothing
C21_OneHolderPerEnd ==
  [][popen'.called =>
       /\ \A s \in Streams : Cardinality(Holders(s)') <= 1
       /\ (caller'.lastTake # caller.lastTake) =>
            LET s == caller'.lastTake.end
            IN /\ caller'.lastTake.got = popen.handle[s]
               /\ ~popen'.handle[s]
               /\ caller.everTook[s] => ~caller'.lastTake.got]_vars

\* the caller took the stdout end of a capturing child, still holds it, and
\* a second take of the field gave nothing
C21_Witness ==
  /\ popen.ok
  /\ popen.options.capture_output
  /\ caller.took.stdout
  /\ caller.lastTake = [end |-> "stdout", got |-> FALSE]
  /\ Holders("stdout") = {"caller"}

\* C22: a Processo or PopenProcess destroyed while its child is not reaped
\* reaps the child during teardown, so no exited child of a destroyed
\* handle is left a zombie
C22_DroppedHandleLeavesNoZombie ==
  /\ handle.dropped => child # "zombie"
  /\ popen.dropped => pchild.state # "zombie"

\* the child of the current engine call was launched
RunLaunched == run.cstate # "none"

\* C23: a call of run_command or run_shell_command that launched a child
\* returns only after the child ended and was reaped; within the call the
\* order is spawn, then reading the pipes to end of file, then the reap, so
\* no return leaves the child running or unreaped
C23_ReturnsAfterReap ==
  [][/\ (run'.returned /\ RunLaunched') => run'.cstate = "reaped"
     /\ (Len(run'.gotOut) > Len(run.gotOut) \/ Len(run'.gotErr) > Len(run.gotErr))
          => (RunLaunched /\ run.cstate # "reaped")
     /\ (run'.cstate = "reaped" /\ run.cstate # "reaped")
          => /\ run.cstate = "zombie"
             /\ run.pipeOut = <<>> /\ run.pipeErr = <<>>
             /\ run.gotOut = run.o.out /\ run.gotErr = run.o.err
             /\ ~run.returned]_vars

\* a call returned after its child wrote more than a pipe holds, so that
\* the child had to wait for the call to read
C23_Witness ==
  /\ run.returned
  /\ run.cstate = "reaped"
  /\ Len(run.gotOut) > PipeCap
  /\ run.result.ok

\* the text the engine reports for the bytes a launched child wrote
ReportedText(bytes, field) ==
  /\ field.some
  /\ bytes = <<>> => field.v = ""
  /\ (\A i \in 1..Len(bytes) : bytes[i] < 128)
       => /\ Len(field.v) = Len(bytes)
          /\ \A i \in 1..Len(bytes) : SubSeq(field.v, i, i) = AsciiChar(bytes[i])
  /\ (\E i \in 1..Len(bytes) : bytes[i] >= 128)
       => /\ Contains(field.v, ReplacementChar)
          /\ \A i \in 1..Len(bytes) :
               bytes[i] < 128 => Contains(field.v, AsciiChar(bytes[i]))

\* C24: bytes_to_string gives a string for every byte sequence: the empty
\* string for no bytes, the same text for valid UTF-8, a text with
\* replacement characters for anything else; so no call of run_command or
\* run_shell_command whose child was launched returns OutputCaptureError,
\* or any error, whatever bytes the child wrote
C24_ChildBytesNeverFail ==
  /\ InEngine => engineResult.err.variant # "OutputCaptureError"
  /\ (InEngine /\ spawned # <<>>)
       => /\ engineResult.ok
          /\ engineCall.options.capture_output
               => /\ ReportedText(os.out, engineResult.cp.stdout)
                  /\ ReportedText(os.err, engineResult.cp.stderr)
                  /\ os.out = <<104, 105, 10>> => engineResult.cp.stdout.v = "hi\n"

\* a capturing call whose child wrote a byte that is not UTF-8
C24_Witness ==
  /\ InEngine
  /\ spawned # <<>>
  /\ engineCall.options.capture_output
  /\ os.out = <<InvalidByte, 72>>
  /\ engineResult.ok
  /\ engineResult.cp.stdout = Some(ReplacementChar \o "H")

\* argument i is the first whose evaluation would not give a value, and it
\* would give Propagate
FirstStopPropagates(i) ==
  /\ i \in 1..Len(args)
  /\ args[i].outcome = "Propagate"
  /\ \A k \in 1..(i - 1) : args[k].outcome = "Value"

\* C25 as stated: the arguments are evaluated before the arity is checked,
\* so a call with more than three arguments in which the evaluation of an
\* argument propagates returns that Propagate and not the arity failure
C25_PropagateBeatsArity ==
  (InBuiltin /\ Len(args) > 3)
    => \A i \in 1..Len(args) :
         FirstStopPropagates(i) => result = OkPropagate(args[i].expr)

\* C25, amended: the arity is checked before any argument is evaluated, so
\* a call with more than three arguments in which the evaluation of an
\* argument would propagate returns the arity failure, with no argument
\* evaluated
C25_ArityBeatsPropagate ==
  (InBuiltin /\ Len(args) > 3)
    => /\ result = HardErr("subprocess.run() takes 1 to 3 arguments")
       /\ evals = 0
       /\ ~InEngine

\* four arguments, the first of which would propagate
C25_Witness ==
  /\ InBuiltin
  /\ Len(args) = 4
  /\ FirstStopPropagates(1)
  /\ result.kind = "Err"
  /\ evals = 0

\* C26: the taxonomy of types.rs and the taxonomy of subprocess_errors.rs
\* have one shape: for every kind of IO error and every command name the
\* two from_io_error give the same variant, and for every variant the two
\* conversions to a string give the same text
C26_TaxonomiesAgree ==
  /\ op = "from_io_error"
       => /\ ioOut.t.variant = ioOut.i.variant
          /\ ioOut.t.payload = ioOut.i.payload
  /\ (op = "display" /\ shown.tax = "T")
       => DisplayI(ErrorI(shown.e1.variant, shown.e1.payload)) = shown.s1

\* C27: terminate never delivers SIGTERM to a process id whose child the
\* handle's wait has already reaped
C27_NoSigtermAfterReap ==
  \A i \in 1..Len(sigLog) :
    sigLog[i].sig = "SIGTERM" => sigLog[i].target # "reaped"

\* the caller is inside its join on a capturing cat whose stdin it has
\* closed, while the PopenProcess still holds the stdout end, unread
JoiningCat ==
  /\ caller.join = "joining"
  /\ pchild.program = "cat"
  /\ popen.options.capture_output
  /\ ~StdinOpen
  /\ popen.handle.stdout

\* C28: the join of a capturing cat whose stdin the caller has dropped
\* returns for every amount of output, also more than a pipe holds: while
\* the join is pending, the child or the join can always take a step
C28_JoinNeverStuck ==
  JoiningCat => ENABLED NextPopen

\* the call has 1 to 3 arguments, all of them values
ValuesInArity == InBuiltin /\ ~ArityBad /\ AllValues

\* the command is a string that is empty or all whitespace, the shell flag
\* is true and the capture flag, when given, is a boolean
BlankShellCall ==
  /\ ValuesInArity
  /\ FirstIsString
  /\ AllWhitespace(args[1].expr.s)
  /\ ShellRequested
  /\ ~NotBoolean(3)

\* C29: subprocess.run with an empty or all-whitespace command string and
\* shell true passes the validation of the bridge, spawns nothing and gives
\* the value CErr(CString("Invalid arguments: Shell command cannot be
\* empty")), not a hard Err; an empty command list gives a hard Err
C29_BlankShellCommandIsFailureValue ==
  /\ BlankShellCall
       => /\ result = OkValue(CErr(CString("Invalid arguments: Shell command cannot be empty")))
          /\ engineCall.fn = "run_shell_command"
          /\ spawned = <<>>
  /\ (ValuesInArity /\ ListEmpty)
       => /\ result = HardErr("subprocess.run() command list cannot be empty")
          /\ ~InEngine
          /\ spawned = <<>>

\* the command " \t" with shell true and capture_output true
C29_Witness ==
  /\ BlankShellCall
  /\ Len(args) = 3
  /\ args[1].expr.s = " \t"
  /\ result.kind = "Value"
  /\ result.value.tag = "CErr"

\* the last call entered run_shell_command with a command that is not blank
InShell == engineCall.fn = "run_shell_command" /\ ~EmptyCommand

\* C30: when run_shell_command cannot launch, the error names the shell
\* program ("sh" on POSIX) and never the command string of the caller; the
\* shell that is launched gets the command string unmodified as its single
\* argument after "-c"
C30_ShellLaunchErrorNamesShell ==
  InShell
    => /\ os.launch # "ok"
            => /\ ~engineResult.ok
               /\ spawned = <<>>
               /\ os.launch = "NotFound"
                    => engineResult.err = ErrorT("CommandNotFound", "sh")
               /\ os.launch = "PermissionDenied"
                    => engineResult.err = ErrorT("PermissionDenied", "sh")
               /\ os.launch \notin {"NotFound", "PermissionDenied"}
                    => engineResult.err = ErrorT("ExecutionFailed", "sh: " \o os.msg)
               /\ ~Contains(engineResult.err.payload, engineCall.command[1])
       /\ os.launch = "ok"
            => /\ Len(spawned) = 1
               /\ spawned[1].program = "sh"
               /\ spawned[1].args = <<"-c", engineCall.command[1]>>

\* the shell was not found when the command " ls " was to be run
C30_Witness ==
  /\ op = "run_shell_command"
  /\ engineCall.command = <<" ls ">>
  /\ os.launch = "NotFound"
  /\ engineResult.err = ErrorT("CommandNotFound", "sh")

====
